---- MODULE Spec2Model ----
(***************************************************************************)
(* Session store (valkey adapter), the login / refresh / logout handlers   *)
(* built on it, and the per-IP rate limiter of the blog backend.           *)
(*                                                                         *)
(* Time is counted in seconds.  A valkey command is one atomic step; a     *)
(* handler is a sequence of such steps and several requests interleave.    *)
(***************************************************************************)
EXTENDS Integers, Naturals, Sequences, FiniteSets, TLC

VARIABLES now, kv, idx, req, nextTok, stored, lastResp,
          cfg, limiters, buckets, nextBucket, rl, served, inst, swept, probe,
          users, activations

svars  == <<kv, idx, req, nextTok, stored, lastResp, users, activations>>
rlvars == <<cfg, limiters, buckets, nextBucket, rl, served, inst, swept, probe>>
vars   == <<now, kv, idx, req, nextTok, stored, lastResp,
           cfg, limiters, buckets, nextBucket, rl, served, inst, swept, probe,
           users, activations>>

(***************************************************************************)
(* Bounds of the model.                                                    *)
(***************************************************************************)
MaxTokens == 3      \* tokens the issuer hands out in one behaviour
LogoutTokens == 4   \* the same, when only logins and logouts run
RefreshTokens == 5  \* the same, when only logins and refreshes run
LoginTokens == 8    \* the same, when only logins run
MaxDirect == 2      \* tokens stored by direct StoreSession callers
MaxRequests == 3    \* requests through the rate limiter in one behaviour
MaxBurst == 2       \* largest configured burst
MaxRps == 1         \* largest configured refill rate (tokens per second)
MaxXff == 2         \* most entries of an X-Forwarded-For header

Reqs  == {"r1", "r2"}        \* concurrently handled session requests
Users == {1, 2}              \* rows of the users table

(***************************************************************************)
(* Token scopes and their TTLs.                                            *)
(***************************************************************************)
ScopeActivation == 0
ScopeAuthentication == 1
ScopeRefresh == 2
Scopes == {ScopeActivation, ScopeAuthentication, ScopeRefresh}

AccessTTL == 600
RefreshTTL == 345600
DefaultTTL == 86400

\* TokenScope.String: the name of a scope, "" with an error otherwise
ScopeString(scope) ==
  CASE scope = ScopeActivation -> [str |-> "activation", err |-> FALSE]
    [] scope = ScopeAuthentication -> [str |-> "authentication", err |-> FALSE]
    [] scope = ScopeRefresh -> [str |-> "refresh", err |-> FALSE]
    [] OTHER -> [str |-> "", err |-> TRUE]

\* buildKey with the scope left out of the key
buildKeyNoScope(token, scope) ==
  [key |-> <<"", "token", token>>, err |-> ScopeString(scope).err]

\* sessionAdapter.buildKey: "<scope>:token:<token>"
buildKey(token, scope) ==
  [key |-> <<ScopeString(scope).str, "token", token>>, err |-> ScopeString(scope).err]

\* sessionAdapter.buildUserIndexKey: "user:<id>:<scope>:sessions" (scope error dropped)
buildUserIndexKey(userID, scope) == <<"user", userID, ScopeString(scope).str, "sessions">>

\* StoreSession giving every scope the fallback TTL
ScopeTTLDefault(scope) == DefaultTTL

\* the switch of StoreSession that picks the TTL from the scope
ScopeTTL(scope) ==
  CASE scope = ScopeAuthentication -> AccessTTL
    [] scope = ScopeRefresh -> RefreshTTL
    [] OTHER -> DefaultTTL

(***************************************************************************)
(* Sessions and their JSON form.                                           *)
(***************************************************************************)
NoSession == [UserID |-> 0, Email |-> "", Permissions |-> <<>>, Activated |-> FALSE]

\* json.Marshal(sessionData{...}): one member per json tag
Marshal(session, expiresAt) ==
  [user_id |-> session.UserID, email |-> session.Email,
   permissions |-> session.Permissions, activated |-> session.Activated,
   expires_at |-> expiresAt]

\* GetSession building its domain.Session without the Activated field
UnmarshalNoActivated(json) ==
  [UserID |-> json.user_id, Email |-> json.email,
   Permissions |-> json.permissions, Activated |-> FALSE]

\* json.Unmarshal into sessionData, then the domain.Session GetSession builds
Unmarshal(json) ==
  [UserID |-> json.user_id, Email |-> json.email,
   Permissions |-> json.permissions, Activated |-> json.activated]

\* the users table and the permissions table, as the repositories return them
UserEmail(u) == IF u = 1 THEN "a@x" ELSE "b@x"
UserActivated(u) == u = 1
GetPermissions(u) == IF u = 1 THEN <<"articles:read", "articles:write">> ELSE <<>>
UserSession(u) ==
  [UserID |-> u, Email |-> UserEmail(u), Permissions |-> GetPermissions(u),
   Activated |-> UserActivated(u)]

(***************************************************************************)
(* The valkey commands the adapter issues.                                 *)
(***************************************************************************)
\* a key is live while its TTL has not run out
Live(k) == k \in DOMAIN kv /\ now < kv[k].exp

\* GET key: the value, or nil when the key is absent or expired
CmdGet(k) == IF Live(k) THEN [nil |-> FALSE, val |-> kv[k].val]
             ELSE [nil |-> TRUE, val |-> Marshal(NoSession, 0)]

\* SET key value EX ttl
CmdSet(k, val, ttl) == [x \in DOMAIN kv \cup {k} |->
                          IF x = k THEN [val |-> val, exp |-> now + ttl] ELSE kv[x]]

\* DEL key
CmdDel(k) == [x \in DOMAIN kv \ {k} |-> kv[x]]

\* SMEMBERS key: the empty list for a missing set
CmdSmembers(ik) == IF ik \in DOMAIN idx THEN idx[ik] ELSE {}

\* SADD key member
CmdSadd(ik, token) == [x \in DOMAIN idx \cup {ik} |->
                         IF x = ik THEN CmdSmembers(ik) \cup {token} ELSE idx[x]]

\* DEL of an index set
CmdDelIndex(ik) == [x \in DOMAIN idx \ {ik} |-> idx[x]]

\* sessionAdapter.GetSession as one GET: the session or SessionNotFound
GetSession(token, scope) ==
  IF buildKey(token, scope).err THEN [err |-> "internal", session |-> NoSession]
  ELSE IF CmdGet(buildKey(token, scope).key).nil
       THEN [err |-> "session_not_found", session |-> NoSession]
       ELSE [err |-> "ok", session |-> Unmarshal(CmdGet(buildKey(token, scope).key).val)]

(***************************************************************************)
(* Request slots.  kind/pc is the handler and its position; apc and the    *)
(* a* fields are the adapter call in progress.  A step is one valkey       *)
(* command together with the handler's local code up to its next command.  *)
(***************************************************************************)
NoCookie == -1
EmptyCookie == 0

Idle == [kind |-> "idle", pc |-> "none", user |-> 0, cookie |-> NoCookie,
         acc |-> 0, ref |-> 0, exp |-> 0, sess |-> NoSession, alone |-> TRUE,
         again |-> "no", status |-> 0,
         apc |-> "none", atoken |-> 0, ascope |-> 0, auser |-> 0,
         asess |-> NoSession, pending |-> {}]

NoResp == [kind |-> "none", status |-> 0, cookie |-> NoCookie, cookieExp |-> 0,
           token |-> 0, user |-> 0, alone |-> TRUE, sent |-> NoCookie, again |-> "no"]

\* SREM key member: valkey drops a set that becomes empty
CmdSrem(ik, token) ==
  [x \in {y \in DOMAIN idx : y # ik \/ idx[y] # {token}} |->
     IF x = ik THEN idx[x] \ {token} ELSE idx[x]]

\* the call of an adapter operation from a slot
CallStore(q, token, scope, session) ==
  [q EXCEPT !.apc = "StoreSession", !.atoken = token, !.ascope = scope,
            !.asess = session, !.auser = session.UserID, !.pending = {}]
CallGet(q, token, scope) ==
  [q EXCEPT !.apc = "GetSession", !.atoken = token, !.ascope = scope,
            !.asess = NoSession, !.auser = 0, !.pending = {}]
CallDeleteAll(q, userID, scope) ==
  [q EXCEPT !.apc = "DeleteAll", !.atoken = 0, !.ascope = scope,
            !.asess = NoSession, !.auser = userID, !.pending = {}]

CallDelete(q, token) ==
  [q EXCEPT !.apc = "DeleteSession", !.atoken = token, !.ascope = ScopeAuthentication,
            !.asess = NoSession, !.auser = 0, !.pending = {}]

\* the handler has written its response
Done(q, status) ==
  [q EXCEPT !.pc = "done", !.status = status, !.apc = "none", !.pending = {}]

\* AuthenticationToken storing the new sessions before the refresh-scope
\* bulk delete
ResumeLoginStoreFirst(q, err) ==
  CASE q.pc = "delAuth" ->
         IF err # "ok" THEN Done(q, 500)
         ELSE CallStore([q EXCEPT !.pc = "storeAcc"], q.acc, ScopeAuthentication, q.sess)
    [] q.pc = "storeAcc" ->
         IF err # "ok" THEN Done(q, 500)
         ELSE CallStore([q EXCEPT !.pc = "storeRef"], q.ref, ScopeRefresh, q.sess)
    [] q.pc = "storeRef" ->
         IF err # "ok" THEN Done(q, 500)
         ELSE CallDeleteAll([q EXCEPT !.pc = "delRefresh"], q.user, ScopeRefresh)
    [] OTHER ->
         IF err # "ok" THEN Done(q, 500) ELSE Done(q, 201)

\* Handler.AuthenticationToken after each Session Store call
ResumeLogin(q, err) ==
  CASE q.pc = "delAuth" ->
         IF err # "ok" THEN Done(q, 500)
         ELSE CallDeleteAll([q EXCEPT !.pc = "delRefresh"], q.user, ScopeRefresh)
    [] q.pc = "delRefresh" ->
         IF err # "ok" THEN Done(q, 500)
         ELSE CallStore([q EXCEPT !.pc = "storeAcc"], q.acc, ScopeAuthentication, q.sess)
    [] q.pc = "storeAcc" ->
         IF err # "ok" THEN Done(q, 500)
         ELSE CallStore([q EXCEPT !.pc = "storeRef"], q.ref, ScopeRefresh, q.sess)
    [] OTHER ->
         IF err # "ok" THEN Done(q, 500) ELSE Done(q, 201)

\* RefreshToken going on to the bulk delete whatever GetSession returned
ResumeRefreshUnchecked(q, err, session, tok) ==
  CASE q.pc = "get" ->
         CallDeleteAll([q EXCEPT !.pc = "delAuth", !.sess = session,
                                 !.user = session.UserID],
                       1, ScopeAuthentication)
    [] q.pc = "delAuth" ->
         IF err # "ok" THEN Done(q, 500)
         ELSE CallStore([q EXCEPT !.pc = "storeAcc", !.acc = tok, !.exp = now + AccessTTL],
                        tok, ScopeAuthentication, q.sess)
    [] OTHER ->
         IF err # "ok" THEN Done(q, 500) ELSE Done(q, 200)

\* Handler.RefreshToken after each Session Store call; tok is the plaintext
\* GenerateAccessToken draws
ResumeRefresh(q, err, session, tok) ==
  CASE q.pc = "get" ->
         IF err # "ok" THEN Done(q, 401)
         ELSE CallDeleteAll([q EXCEPT !.pc = "delAuth", !.sess = session,
                                      !.user = session.UserID],
                            session.UserID, ScopeAuthentication)
    [] q.pc = "delAuth" ->
         IF err # "ok" THEN Done(q, 500)
         ELSE CallStore([q EXCEPT !.pc = "storeAcc", !.acc = tok, !.exp = now + AccessTTL],
                        tok, ScopeAuthentication, q.sess)
    [] OTHER ->
         IF err # "ok" THEN Done(q, 500) ELSE Done(q, 200)

\* LogoutToken answering 401 for a cookie that resolves to no session
ResumeLogoutStrict(q, err, session) ==
  CASE q.pc = "get" ->
         IF err # "ok" THEN Done(q, 401)
         ELSE CallDeleteAll([q EXCEPT !.pc = "delAuth", !.sess = session,
                                      !.user = session.UserID],
                            session.UserID, ScopeAuthentication)
    [] q.pc = "delAuth" ->
         IF err # "ok" THEN Done(q, 500)
         ELSE CallDeleteAll([q EXCEPT !.pc = "delRefresh"], q.user, ScopeRefresh)
    [] OTHER ->
         IF err # "ok" THEN Done(q, 500) ELSE Done(q, 200)

\* Handler.LogoutToken after each Session Store call
ResumeLogout(q, err, session) ==
  CASE q.pc = "get" ->
         IF err # "ok" THEN Done(q, 200)
         ELSE CallDeleteAll([q EXCEPT !.pc = "delAuth", !.sess = session,
                                      !.user = session.UserID],
                            session.UserID, ScopeAuthentication)
    [] q.pc = "delAuth" ->
         IF err # "ok" THEN Done(q, 500)
         ELSE CallDeleteAll([q EXCEPT !.pc = "delRefresh"], q.user, ScopeRefresh)
    [] OTHER ->
         IF err # "ok" THEN Done(q, 500) ELSE Done(q, 200)

\* a direct caller of the adapter (a service or a test) takes the result as it is
ResumeDirect(q, err, session) ==
  [Done(q, IF err = "ok" THEN 200 ELSE IF err = "session_not_found" THEN 404 ELSE 500)
     EXCEPT !.sess = session]

\* userService.ActivateUser after each Session Store call: a failed lookup
\* is returned as it is, a found session leads to the UPDATE of the user
\* row, the bulk delete to the commit
ResumeActivate(q, err, session) ==
  CASE q.pc = "get" ->
         IF err # "ok" THEN Done(q, IF err = "session_not_found" THEN 404 ELSE 500)
         ELSE [q EXCEPT !.pc = "update", !.sess = session, !.user = session.UserID,
                        !.apc = "none"]
    [] OTHER ->
         IF err # "ok" THEN Done(q, 500)
         ELSE [q EXCEPT !.pc = "commit", !.apc = "none"]

\* RegisterUser committing whatever StoreSession returned
ResumeRegisterCommitAnyway(q, err) == [q EXCEPT !.pc = "commit", !.apc = "none"]

\* userService.RegisterUser after StoreSession, lines 43-45
ResumeRegister(q, err) ==
  IF err # "ok" THEN [q EXCEPT !.pc = "fail", !.apc = "none"]
  ELSE [q EXCEPT !.pc = "commit", !.apc = "none"]

\* the caller's code that runs when its adapter call returns (err, session)
Resume(q, err, session, tok) ==
  CASE q.kind = "login" -> ResumeLogin(q, err)
    [] q.kind = "refresh" -> ResumeRefresh(q, err, session, tok)
    [] q.kind = "logout" -> ResumeLogout(q, err, session)
    [] q.kind = "activate" -> ResumeActivate(q, err, session)
    [] q.kind = "register" -> ResumeRegister(q, err)
    [] OTHER -> ResumeDirect(q, err, session)

\* the response a finished handler has written (cookie: the Set-Cookie value)
Response(q) ==
  [kind |-> q.kind, status |-> q.status, user |-> q.user, alone |-> q.alone,
   sent |-> q.cookie, again |-> q.again,
   cookie |-> IF q.kind = "logout" /\ q.status = 200 THEN EmptyCookie
              ELSE IF q.kind = "login" /\ q.status = 201 THEN q.ref ELSE NoCookie,
   cookieExp |-> IF q.kind = "login" /\ q.status = 201 THEN q.exp ELSE 0,
   token |-> IF q.status \in {200, 201} /\ q.kind \in {"login", "refresh"}
             THEN q.acc ELSE 0]

\* slot r moves to q; a finished request answers and frees its slot
Proceed(r, q) ==
  IF q.pc = "done"
  THEN /\ req' = [req EXCEPT ![r] = Idle]
       /\ lastResp' = IF q.kind \in {"login", "refresh", "logout", "DeleteSession",
                                     "ScopeCall"}
                      THEN Response(q)
                      ELSE lastResp
  ELSE /\ req' = [req EXCEPT ![r] = q]
       /\ UNCHANGED lastResp

\* no request is being handled besides (possibly) the one in slot r
Quiet(r) == \A y \in Reqs \ {r} : req[y].kind = "idle"

\* a request enters slot r: the requests it overlaps with are no longer alone
Enter(r, q) ==
  req' = [x \in Reqs |->
            IF x = r THEN [q EXCEPT !.alone = Quiet(r)]
            ELSE IF req[x].kind = "idle" THEN req[x]
            ELSE [req[x] EXCEPT !.alone = FALSE, !.again = "no"]]

\* whether a logout sending cookie c from slot r directly follows a logout
\* that sent the same cookie, and whether that one had found a session
Again(r, c) ==
  IF lastResp.kind = "logout" /\ lastResp.alone /\ lastResp.sent = c /\ Quiet(r)
  THEN IF lastResp.user # 0 THEN "after_found" ELSE "after_missing"
  ELSE "no"

(***************************************************************************)
(* The rate limiter's requests.                                            *)
(***************************************************************************)
RLReqs == {"q1", "q2"}                 \* concurrently handled requests
IPs == {"10.0.0.1", "10.0.0.2"}        \* the strings net.ParseIP accepts

\* a request the middleware is not handling
RLIdle == [pc |-> "idle", ip |-> "", limiter |-> 0]

\* what the requests of one client IP got since the clock last moved; clean
\* when the instant began with no request of that IP under way and its
\* bucket absent or full
NoOutcomes == [clean |-> TRUE, outcomes |-> <<>>]

\* no call has been recorded
NoProbe == [kind |-> "none"]

InitBase ==
  /\ now = 0
  /\ kv = <<>>
  /\ idx = <<>>
  /\ req = [r \in Reqs |-> Idle]
  /\ nextTok = 1
  /\ stored = <<>>
  /\ lastResp = NoResp
  /\ limiters = <<>>
  /\ buckets = <<>>
  /\ nextBucket = 1
  /\ rl = [q \in RLReqs |-> RLIdle]
  /\ served = 0
  /\ inst = [ip \in IPs |-> NoOutcomes]
  /\ swept = 0
  /\ probe = NoProbe
  /\ users = [u \in Users |-> [activated |-> UserActivated(u), lock |-> "none"]]
  /\ activations = <<>>

Init ==
  /\ InitBase
  /\ cfg = [enabled |-> TRUE, rps |-> 1, burst |-> 1]

(***************************************************************************)
(* The adapter, one action per valkey command.                             *)
(***************************************************************************)
\* StoreSession, lines 46-79: build the key, SET it with the scope's TTL
StoreSessionSet(r) ==
  /\ req[r].apc = "StoreSession"
  /\ LET q == req[r]
         bk == buildKey(q.atoken, q.ascope)
         ttl == ScopeTTL(q.ascope)
     IN IF bk.err
        THEN /\ Proceed(r, Resume(q, "internal", NoSession, nextTok))
             /\ UNCHANGED <<kv, stored>>
        ELSE /\ kv' = CmdSet(bk.key, Marshal(q.asess, now + ttl), ttl)
             /\ stored' = [x \in DOMAIN stored \cup {<<q.atoken, q.ascope>>} |->
                             IF x = <<q.atoken, q.ascope>>
                             THEN [session |-> q.asess, at |-> now, token |-> q.atoken,
                                   scope |-> q.ascope, by |-> q.kind]
                             ELSE stored[x]]
             /\ req' = [req EXCEPT ![r].apc = "StoreSession_sadd"]
             /\ UNCHANGED lastResp
  /\ UNCHANGED <<now, idx, nextTok>>
  /\ UNCHANGED <<rlvars, users, activations>>

\* StoreSession returning after the SET, the index left as it was
StoreSessionNoSadd(r) ==
  /\ req[r].apc = "StoreSession_sadd"
  /\ Proceed(r, Resume(req[r], "ok", NoSession, nextTok))
  /\ UNCHANGED <<now, kv, idx, nextTok, stored>>
  /\ UNCHANGED <<rlvars, users, activations>>

\* StoreSession, lines 81-88: SADD the token to the user's index
StoreSessionSadd(r) ==
  /\ req[r].apc = "StoreSession_sadd"
  /\ LET q == req[r]
     IN /\ idx' = CmdSadd(buildUserIndexKey(q.asess.UserID, q.ascope), q.atoken)
        /\ Proceed(r, Resume(q, "ok", NoSession, nextTok))
  /\ UNCHANGED <<now, kv, nextTok, stored>>
  /\ UNCHANGED <<rlvars, users, activations>>

\* GetSession, lines 91-123: one GET
GetSessionGet(r) ==
  /\ req[r].apc = "GetSession"
  /\ LET q == req[r]
         res == GetSession(q.atoken, q.ascope)
     IN Proceed(r, Resume(q, res.err, res.session, nextTok))
  /\ UNCHANGED <<now, kv, idx, nextTok, stored>>
  /\ UNCHANGED <<rlvars, users, activations>>

\* DeleteAllSessionsForUser, lines 126-146: SMEMBERS of the index
DeleteAllSmembers(r) ==
  /\ req[r].apc = "DeleteAll"
  /\ LET q == req[r]
         tokens == CmdSmembers(buildUserIndexKey(q.auser, q.ascope))
         q2 == IF tokens = {} THEN Resume(q, "ok", NoSession, nextTok)
               ELSE [q EXCEPT !.apc = "DeleteAll_del", !.pending = tokens]
     IN /\ Proceed(r, q2)
        /\ nextTok' = IF q2.acc = nextTok /\ q.acc # nextTok THEN nextTok + 1 ELSE nextTok
  /\ UNCHANGED <<now, kv, idx, stored>>
  /\ UNCHANGED <<rlvars, users, activations>>

\* DeleteAllSessionsForUser, lines 148-156: DEL of one session key of the list
DeleteAllDel(r) ==
  /\ req[r].apc = "DeleteAll_del"
  /\ \E t \in req[r].pending :
       LET q == req[r]
           bk == buildKey(t, q.ascope)
           left == q.pending \ {t}
       IN /\ kv' = IF bk.err THEN kv ELSE CmdDel(bk.key)
          /\ stored' = IF bk.err THEN stored
                       ELSE [x \in DOMAIN stored \ {<<t, q.ascope>>} |-> stored[x]]
          /\ req' = [req EXCEPT ![r].pending = left,
                                ![r].apc = IF left = {} THEN "DeleteAll_delidx"
                                           ELSE "DeleteAll_del"]
  /\ UNCHANGED <<now, idx, nextTok, lastResp>>
  /\ UNCHANGED <<rlvars, users, activations>>

\* DeleteAllSessionsForUser, lines 158-160: DEL of the index set
DeleteAllDelIndex(r) ==
  /\ req[r].apc = "DeleteAll_delidx"
  /\ LET q == req[r]
         q2 == Resume(q, "ok", NoSession, nextTok)
     IN /\ idx' = CmdDelIndex(buildUserIndexKey(q.auser, q.ascope))
        /\ Proceed(r, q2)
        /\ nextTok' = IF q2.acc = nextTok /\ q.acc # nextTok THEN nextTok + 1 ELSE nextTok
  /\ UNCHANGED <<now, kv, stored>>
  /\ UNCHANGED <<rlvars, users, activations>>

(***************************************************************************)
(* The handlers of /v1/auth/login, /v1/auth/refresh and /v1/auth/logout.   *)
(***************************************************************************)
\* plaintexts that in-flight refresh requests will still draw
Undrawn == Cardinality({r \in Reqs : req[r].kind = "refresh" /\ req[r].pc \in {"get", "delAuth"}})

\* a token no issuer ever produced
BogusToken == MaxTokens + RefreshTokens + LoginTokens + MaxDirect

\* what a client can send as the cms_refresh_token cookie
CookieVals == {NoCookie, EmptyCookie, BogusToken} \cup (1 .. (nextTok - 1))

\* AuthenticationToken, lines 38-75: the credentials match user u; both
\* tokens are generated and the first bulk delete is called
LoginStart(r, u, limit) ==
  /\ req[r].kind = "idle"
  /\ nextTok + Undrawn + 1 <= limit
  /\ Enter(r, CallDeleteAll([Idle EXCEPT !.kind = "login", !.pc = "delAuth", !.user = u,
                                         !.acc = nextTok, !.ref = nextTok + 1,
                                         !.exp = now + RefreshTTL,
                                         !.sess = UserSession(u)],
                            u, ScopeAuthentication))
  /\ nextTok' = nextTok + 2
  /\ UNCHANGED <<now, kv, idx, stored, lastResp>>
  /\ UNCHANGED <<rlvars, users, activations>>

\* AuthenticationToken, lines 39-54: unknown email (404) or wrong password (401)
LoginReject(r, known) ==
  /\ req[r].kind = "idle"
  /\ lastResp' = [NoResp EXCEPT !.kind = "login",
                                !.status = IF known THEN 401 ELSE 404]
  /\ UNCHANGED <<now, kv, idx, req, nextTok, stored>>
  /\ UNCHANGED <<rlvars, users, activations>>

\* RefreshToken, lines 260-268: a missing or empty cookie is answered 401,
\* any other is looked up in the refresh scope
RefreshStart(r, c, limit) ==
  /\ req[r].kind = "idle"
  /\ nextTok + Undrawn <= limit
  /\ IF c \in {NoCookie, EmptyCookie}
     THEN /\ lastResp' = [NoResp EXCEPT !.kind = "refresh", !.status = 401]
          /\ UNCHANGED req
     ELSE /\ Enter(r, CallGet([Idle EXCEPT !.kind = "refresh", !.pc = "get", !.cookie = c],
                              c, ScopeRefresh))
          /\ UNCHANGED lastResp
  /\ UNCHANGED <<now, kv, idx, nextTok, stored>>
  /\ UNCHANGED <<rlvars, users, activations>>

\* LogoutToken, lines 131-137 and 155-169: a missing or empty cookie goes
\* straight to the cookie-clearing response
LogoutStart(r, c) ==
  /\ req[r].kind = "idle"
  /\ IF c \in {NoCookie, EmptyCookie}
     THEN /\ lastResp' = Response(Done([Idle EXCEPT !.kind = "logout", !.cookie = c,
                                          !.alone = Quiet(r), !.again = Again(r, c)],
                                       200))
          /\ UNCHANGED req
     ELSE /\ Enter(r, CallGet([Idle EXCEPT !.kind = "logout", !.pc = "get", !.cookie = c,
                                           !.again = Again(r, c)],
                              c, ScopeRefresh))
          /\ UNCHANGED lastResp
  /\ UNCHANGED <<now, kv, idx, nextTok, stored>>
  /\ UNCHANGED <<rlvars, users, activations>>

(***************************************************************************)
(* Time.                                                                   *)
(***************************************************************************)
\* how long the issuer makes a token of a scope valid: GenerateAccessToken
\* 10 minutes, GenerateRefreshToken 4 days, GenerateToken 24 hours
Lifetime(scope) ==
  CASE scope = ScopeAuthentication -> AccessTTL
    [] scope = ScopeRefresh -> RefreshTTL
    [] OTHER -> DefaultTTL

\* the instants the clock of the session store is observed at
Instants == {AccessTTL - 1, AccessTTL, DefaultTTL, RefreshTTL}

\* the clock moves to a later instant t; valkey drops the keys whose TTL ran out
Tick(t) ==
  /\ t > now
  /\ now' = t
  /\ kv' = [k \in {x \in DOMAIN kv : t < kv[x].exp} |-> kv[k]]
  /\ stored' = [k \in {x \in DOMAIN stored : t < stored[x].at + Lifetime(x[2])}
                   |-> stored[k]]
  /\ UNCHANGED <<idx, req, nextTok, lastResp>>
  /\ UNCHANGED <<rlvars, users, activations>>

(***************************************************************************)
(* Direct callers of the adapter: services and tests store sessions of     *)
(* any scope under a freshly generated token, look tokens up and delete.   *)
(***************************************************************************)
SessionVals == {UserSession(u) : u \in Users}

DirectStore(r, scope, session) ==
  /\ req[r].kind = "idle"
  /\ nextTok <= MaxDirect
  /\ Enter(r, CallStore([Idle EXCEPT !.kind = "StoreSession", !.user = session.UserID,
                                     !.acc = nextTok],
                        nextTok, scope, session))
  /\ nextTok' = nextTok + 1
  /\ UNCHANGED <<now, kv, idx, stored, lastResp>>
  /\ UNCHANGED <<rlvars, users, activations>>

DirectGet(r, token, scope) ==
  /\ req[r].kind = "idle"
  /\ GetSession(token, scope).err \in {"ok", "session_not_found", "internal"}
  /\ UNCHANGED <<now, kv, idx, req, nextTok, stored, lastResp>>
  /\ UNCHANGED <<rlvars, users, activations>>

DirectDeleteAll(r, u, scope) ==
  /\ req[r].kind = "idle"
  /\ Enter(r, CallDeleteAll([Idle EXCEPT !.kind = "DeleteAll", !.user = u, !.ref = scope],
                            u, scope))
  /\ UNCHANGED <<now, kv, idx, nextTok, stored, lastResp>>
  /\ UNCHANGED <<rlvars, users, activations>>

(***************************************************************************)
(* Specifications.                                                         *)
(***************************************************************************)
\* the three auth handlers, concurrently
Next ==
  \/ \E r \in Reqs : LoginStart(r, 1, MaxTokens)
  \/ \E r \in Reqs, known \in BOOLEAN : LoginReject(r, known)
  \/ \E r \in Reqs : \E c \in CookieVals : RefreshStart(r, c, MaxTokens)
  \/ \E r \in Reqs : \E c \in CookieVals : LogoutStart(r, c)
  \/ \E r \in Reqs : StoreSessionSet(r)
  \/ \E r \in Reqs : StoreSessionSadd(r)
  \/ \E r \in Reqs : GetSessionGet(r)
  \/ \E r \in Reqs : DeleteAllSmembers(r)
  \/ \E r \in Reqs : DeleteAllDel(r)
  \/ \E r \in Reqs : DeleteAllDelIndex(r)
  \/ Tick(RefreshTTL)

Spec == Init /\ [][Next]_vars

\* the adapter under direct callers: one of them stores while another
\* deletes, and lookups go on at any time
NextStore ==
  \/ \E r \in {"r1"}, scope \in Scopes, s \in SessionVals : DirectStore(r, scope, s)
  \/ \E r \in Reqs, scope \in Scopes, t \in 1 .. BogusToken :
       (t < nextTok \/ t = BogusToken) /\ DirectGet(r, t, scope)
  \/ \E r \in {"r2"}, u \in Users, scope \in Scopes : DirectDeleteAll(r, u, scope)
  \/ \E r \in Reqs : StoreSessionSet(r)
  \/ \E r \in Reqs : StoreSessionSadd(r)
  \/ \E r \in Reqs : DeleteAllSmembers(r)
  \/ \E r \in Reqs : DeleteAllDel(r)
  \/ \E r \in Reqs : DeleteAllDelIndex(r)
  \/ \E t \in Instants : Tick(t)

SpecStore == Init /\ [][NextStore]_vars

\* concurrent logins
NextLogin ==
  \/ \E r \in Reqs, u \in Users : LoginStart(r, u, LoginTokens)
  \/ \E r \in Reqs, known \in BOOLEAN : LoginReject(r, known)
  \/ \E r \in Reqs : StoreSessionSet(r)
  \/ \E r \in Reqs : StoreSessionSadd(r)
  \/ \E r \in Reqs : DeleteAllSmembers(r)
  \/ \E r \in Reqs : DeleteAllDel(r)
  \/ \E r \in Reqs : DeleteAllDelIndex(r)

SpecLogin == Init /\ [][NextLogin]_vars

\* logins and logouts of one account
NextLogout ==
  \/ \E r \in Reqs : LoginStart(r, 1, LogoutTokens)
  \/ \E r \in Reqs : \E c \in CookieVals : LogoutStart(r, c)
  \/ \E r \in Reqs : StoreSessionSet(r)
  \/ \E r \in Reqs : StoreSessionSadd(r)
  \/ \E r \in Reqs : GetSessionGet(r)
  \/ \E r \in Reqs : DeleteAllSmembers(r)
  \/ \E r \in Reqs : DeleteAllDel(r)
  \/ \E r \in Reqs : DeleteAllDelIndex(r)

SpecLogout == Init /\ [][NextLogout]_vars

\* logins and refreshes of one account
NextRefresh ==
  \/ \E r \in Reqs : LoginStart(r, 1, RefreshTokens)
  \/ \E r \in Reqs : \E c \in CookieVals : RefreshStart(r, c, RefreshTokens)
  \/ \E r \in Reqs : StoreSessionSet(r)
  \/ \E r \in Reqs : StoreSessionSadd(r)
  \/ \E r \in Reqs : GetSessionGet(r)
  \/ \E r \in Reqs : DeleteAllSmembers(r)
  \/ \E r \in Reqs : DeleteAllDel(r)
  \/ \E r \in Reqs : DeleteAllDelIndex(r)

SpecRefresh == Init /\ [][NextRefresh]_vars

(***************************************************************************)
(* Properties of the adapter.                                              *)
(***************************************************************************)
\* tokens a caller can present
Presentable == (1 .. (nextTok - 1)) \cup {BogusToken}

\* C6: a session stored under (token, scope), not deleted and not expired
\* since, is returned by GetSession(token, scope) with the user id, email,
\* permissions and activated flag it was stored with
RoundTrip ==
  \A k \in DOMAIN stored :
    LET g == GetSession(k[1], k[2])
    IN /\ g.err = "ok"
       /\ g.session.UserID = stored[k].session.UserID
       /\ g.session.Email = stored[k].session.Email
       /\ g.session.Permissions = stored[k].session.Permissions
       /\ g.session.Activated = stored[k].session.Activated

\* a refresh session with permissions is still returned a day after it was stored
RoundTripWitness ==
  \E k \in DOMAIN stored :
    /\ k[2] = ScopeRefresh
    /\ stored[k].at + DefaultTTL <= now
    /\ GetSession(k[1], k[2]).err = "ok"
    /\ Len(GetSession(k[1], k[2]).session.Permissions) = 2
    /\ GetSession(k[1], k[2]).session.Activated

\* C7: GetSession(token, scope) returns a session only for a token stored
\* under exactly that scope, neither deleted nor expired, and then that
\* token's own session; otherwise it answers session-not-found
LookupSound ==
  \A t \in Presentable, scope \in Scopes :
    LET g == GetSession(t, scope)
    IN IF <<t, scope>> \in DOMAIN stored
       THEN g.err = "ok" => g.session = stored[<<t, scope>>].session
       ELSE g.err = "session_not_found" /\ g.session = NoSession

\* a live refresh token is not found in the authentication scope, a token
\* whose session is gone (expired here) is not found in any scope, a
\* never-stored token neither
LookupSoundWitness ==
  /\ now >= AccessTTL
  /\ \E t \in Presentable :
       /\ GetSession(t, ScopeRefresh).err = "ok"
       /\ GetSession(t, ScopeAuthentication).err = "session_not_found"
  /\ \E t \in 1 .. (nextTok - 1) :
       /\ \A r \in Reqs : req[r].atoken # t
       /\ \A scope \in Scopes : GetSession(t, scope).err = "session_not_found"
  /\ GetSession(BogusToken, ScopeAuthentication).err = "session_not_found"

\* C8: when DeleteAllSessionsForUser(u, scope), called with no other call
\* in progress, returns, no session stored for u under scope resolves any
\* more and the index of (u, scope) is gone; on an empty index it changes
\* nothing
DeleteAllClears ==
  [][\A r \in Reqs :
       (req[r].kind = "DeleteAll" /\ req[r].alone /\ req'[r].kind = "idle") =>
         /\ \A k \in DOMAIN stored' :
              ~(k[2] = req[r].ascope /\ stored'[k].session.UserID = req[r].auser)
         /\ buildUserIndexKey(req[r].auser, req[r].ascope) \notin DOMAIN idx'
         /\ (req[r].apc = "DeleteAll" => kv' = kv /\ idx' = idx)]_vars

(***************************************************************************)
(* Properties of the login, refresh and logout handlers.                   *)
(***************************************************************************)
\* the tokens that resolve to a session of user u in a scope
Resolvable(u, scope) ==
  {t \in 1 .. (nextTok - 1) :
     GetSession(t, scope).err = "ok" /\ GetSession(t, scope).session.UserID = u}

\* the latest response answers a request that overlapped no other, and no
\* request has been taken up since
Settled(kind, status) ==
  /\ lastResp.kind = kind
  /\ lastResp.status = status
  /\ lastResp.alone
  /\ \A r \in Reqs : req[r].kind = "idle"

\* C1: after a login of u that overlapped no other request has completed,
\* the tokens of u issued by logins that still resolve are the two this
\* login issued, and those two resolve
LoginSupersedes ==
  Settled("login", 201) =>
    /\ \A k \in DOMAIN stored :
         (stored[k].by = "login" /\ stored[k].session.UserID = lastResp.user
            /\ GetSession(k[1], k[2]).err = "ok")
           => k \in {<<lastResp.token, ScopeAuthentication>>, <<lastResp.cookie, ScopeRefresh>>}
    /\ GetSession(lastResp.token, ScopeAuthentication).err = "ok"
    /\ GetSession(lastResp.cookie, ScopeRefresh).err = "ok"

\* C2: while no login of u is in flight, at most one authentication session
\* and at most one refresh session of u resolve
OnePairPerUser ==
  \A u \in Users :
    (\A r \in Reqs : ~(req[r].kind = "login" /\ req[r].user = u)) =>
      /\ Cardinality(Resolvable(u, ScopeAuthentication)) <= 1
      /\ Cardinality(Resolvable(u, ScopeRefresh)) <= 1

\* C3: after a refresh that overlapped no other request has succeeded, the
\* one authentication token of its user that resolves is the new one, the
\* refresh cookie it was sent still resolves and no cookie was set
RefreshRotatesAccess ==
  Settled("refresh", 200) =>
    /\ Resolvable(lastResp.user, ScopeAuthentication) = {lastResp.token}
    /\ GetSession(lastResp.sent, ScopeRefresh).err = "ok"
    /\ lastResp.cookie = NoCookie

\* C4: after a logout whose cookie resolved to a session of u, and that
\* overlapped no other request, has succeeded, no authentication or refresh
\* token of u resolves
LogoutClears ==
  (Settled("logout", 200) /\ lastResp.user # 0) =>
    /\ Resolvable(lastResp.user, ScopeAuthentication) = {}
    /\ Resolvable(lastResp.user, ScopeRefresh) = {}

\* slot r takes a step of its request
Stepped(r) ==
  <<req[r].kind, req[r].pc, req[r].apc, req[r].pending>>
    # <<req'[r].kind, req'[r].pc, req'[r].apc, req'[r].pending>>

\* what a logout answers: 200, the cookie set to "" with expiry time.Unix(0, 0)
Cleared(resp) ==
  /\ resp.kind = "logout"
  /\ resp.status = 200
  /\ resp.cookie = EmptyCookie
  /\ resp.cookieExp = 0
  /\ resp.token = 0

\* C5: a logout whose cookie is absent, empty or resolves to no session
\* leaves the store as it is and answers 200 with the cookie cleared; a
\* logout that directly follows a logout with the same cookie changes
\* nothing in the store in any of its steps and answers as every such
\* logout does
LogoutIdempotent ==
  [][/\ \A r \in Reqs :
          (req[r].kind = "logout" /\ req[r].pc = "get" /\ Stepped(r)
             /\ GetSession(req[r].cookie, ScopeRefresh).err # "ok")
            => (kv' = kv /\ idx' = idx /\ req'[r] = Idle /\ Cleared(lastResp'))
     /\ (req' = req /\ lastResp' # lastResp /\ lastResp'.kind = "logout")
            => (kv' = kv /\ idx' = idx /\ Cleared(lastResp')
                  /\ lastResp'.sent \in {NoCookie, EmptyCookie})
     /\ \A r \in Reqs :
          (req[r].kind = "logout" /\ req[r].again # "no" /\ Stepped(r))
            => /\ kv' = kv /\ idx' = idx
               /\ req'[r].kind = "idle" => Cleared(lastResp')]_vars

\* a logout has followed a logout that had found a session under the same
\* cookie, and one has been answered for a cookie that was never issued
LogoutIdempotentWitness ==
  /\ lastResp.kind = "logout"
  /\ lastResp.again = "after_found"
  /\ lastResp.status = 200
  /\ lastResp.user = 0
  /\ lastResp.sent \in 1 .. (nextTok - 1)

(***************************************************************************)
(* The per-IP rate limiter.  limiters is the map of IPRateLimiter; buckets *)
(* is the heap of rate.Limiter values the map and the requests point to.   *)
(***************************************************************************)
Interval == 3600     \* time.Hour, in seconds

Min(a, b) == IF a < b THEN a ELSE b

\* strings.TrimSpace of one X-Forwarded-For entry
TrimSpace(e) == e.text

\* net.ParseIP(s) != nil
ParseIP(s) == s \in IPs

\* net.SplitHostPort(r.RemoteAddr): an error when there is no port
SplitHostPort(remote) ==
  IF remote.port = "" THEN [host |-> "", err |-> TRUE]
  ELSE [host |-> remote.host, err |-> FALSE]

\* getClientIP trying X-Real-IP before X-Forwarded-For
getClientIPRealFirst(r) ==
  IF r.xri # "" /\ ParseIP(r.xri) THEN r.xri
  ELSE IF r.xff # <<>> /\ ParseIP(TrimSpace(r.xff[1])) THEN TrimSpace(r.xff[1])
  ELSE IF SplitHostPort(r.remote).err THEN r.remote.host
  ELSE SplitHostPort(r.remote).host

\* getClientIP: X-Forwarded-For's first entry, then X-Real-IP, then RemoteAddr
getClientIP(r) ==
  IF r.xff # <<>> /\ ParseIP(TrimSpace(r.xff[1])) THEN TrimSpace(r.xff[1])
  ELSE IF r.xri # "" /\ ParseIP(r.xri) THEN r.xri
  ELSE IF SplitHostPort(r.remote).err THEN r.remote.host
  ELSE SplitHostPort(r.remote).host

\* the requests that arrive: xff is the header split at its commas (<<>> when
\* the header is empty), remote is RemoteAddr
Entry(pad, text) == [pad |-> pad, text |-> text]
Requests ==
  {[xff |-> <<>>, xri |-> "", remote |-> [host |-> ip, port |-> "4711"]] : ip \in IPs}
  \cup
  {[xff |-> <<Entry(FALSE, "10.0.0.1"), Entry(TRUE, "10.0.0.2")>>, xri |-> "10.0.0.2",
    remote |-> [host |-> "10.0.0.2", port |-> "4711"]],
   [xff |-> <<Entry(FALSE, "unknown")>>, xri |-> "10.0.0.2",
    remote |-> [host |-> "10.0.0.1", port |-> "4711"]],
   [xff |-> <<>>, xri |-> "unknown", remote |-> [host |-> "10.0.0.1", port |-> ""]]}

\* one map key for every IP
limiterKeyShared(ip) == ""

\* the key of an IP's entry in irl.limiters
limiterKey(ip) == ip

\* rate.NewLimiter(irl.rps, irl.burst): a full bucket; owner records the IP
\* it was created for
NewLimiter(rps, burst, ip) ==
  [tokens |-> burst, last |-> now, limit |-> rps, burst |-> burst, owner |-> ip]

\* the tokens of bucket b at time t: refilled at its rate up to its burst
Advance(b, t) == Min(b.burst, b.tokens + (t - b.last) * b.limit)

\* limiter.Allow(): whether a token is there to take
AllowOk(b) == Advance(b, now) >= 1

\* the tail of the rateLimit closure without its return after the 429
OutcomeNoReturn(allowed) == [limited |-> ~allowed, next |-> TRUE]

\* the tail of the rateLimit closure: 429 and return, or next.ServeHTTP
Outcome(allowed) == [limited |-> ~allowed, next |-> allowed]

\* the buckets still referenced by the map (lims) or by a request (slots)
Collect(bs, lims, slots) ==
  [id \in {x \in DOMAIN bs :
             \/ \E k \in DOMAIN lims : lims[k].limiter = x
             \/ \E q \in RLReqs : slots[q].limiter = x} |-> bs[id]]

\* the outcome of a request of ip joins those of the current instant
Record(ip, out) ==
  [inst EXCEPT ![ip] = [@ EXCEPT !.outcomes = Append(@, out)]]

\* a request arrives at the rateLimit middleware
RLStart(q, r) ==
  /\ rl[q].pc = "idle"
  /\ served < MaxRequests
  /\ served' = served + 1
  /\ IF cfg.enabled
     THEN /\ rl' = [rl EXCEPT ![q] = [pc |-> "getLimiter", ip |-> getClientIP(r),
                                      limiter |-> 0]]
          /\ UNCHANGED inst
     ELSE /\ inst' = Record(getClientIP(r), Outcome(TRUE))
          /\ UNCHANGED rl
  /\ UNCHANGED <<now, svars, probe, cfg, limiters, buckets, nextBucket, swept>>

\* getLimiter without irl.mu held across lookup and insert: a caller that
\* overlaps another caller of its IP misses the entry and inserts its own
RLGetLimiterRacy(q) ==
  /\ rl[q].pc = "getLimiter"
  /\ LET key == limiterKey(rl[q].ip)
         racing == \E q2 \in RLReqs \ {q} : rl[q2].pc = "Allow" /\ rl[q2].ip = rl[q].ip
     IN IF key \notin DOMAIN limiters \/ racing
        THEN /\ buckets' = [id \in DOMAIN buckets \cup {nextBucket} |->
                              IF id = nextBucket
                              THEN NewLimiter(cfg.rps, cfg.burst, rl[q].ip)
                              ELSE buckets[id]]
             /\ limiters' = [k \in DOMAIN limiters \cup {key} |->
                               IF k = key THEN [limiter |-> nextBucket, lastSeen |-> now]
                               ELSE limiters[k]]
             /\ rl' = [rl EXCEPT ![q] = [@ EXCEPT !.pc = "Allow", !.limiter = nextBucket]]
             /\ nextBucket' = nextBucket + 1
        ELSE /\ limiters' = [limiters EXCEPT ![key] = [@ EXCEPT !.lastSeen = now]]
             /\ rl' = [rl EXCEPT ![q] = [@ EXCEPT !.pc = "Allow",
                                                  !.limiter = limiters[key].limiter]]
             /\ UNCHANGED <<buckets, nextBucket>>
  /\ UNCHANGED <<now, svars, probe, cfg, served, inst, swept>>

\* getLimiter under irl.mu: create the entry of the IP or refresh its lastSeen
RLGetLimiter(q) ==
  /\ rl[q].pc = "getLimiter"
  /\ LET key == limiterKey(rl[q].ip) IN
       IF key \notin DOMAIN limiters
       THEN /\ buckets' = [id \in DOMAIN buckets \cup {nextBucket} |->
                             IF id = nextBucket
                             THEN NewLimiter(cfg.rps, cfg.burst, rl[q].ip)
                             ELSE buckets[id]]
            /\ limiters' = [k \in DOMAIN limiters \cup {key} |->
                              IF k = key THEN [limiter |-> nextBucket, lastSeen |-> now]
                              ELSE limiters[k]]
            /\ rl' = [rl EXCEPT ![q] = [@ EXCEPT !.pc = "Allow", !.limiter = nextBucket]]
            /\ nextBucket' = nextBucket + 1
       ELSE /\ limiters' = [limiters EXCEPT ![key] = [@ EXCEPT !.lastSeen = now]]
            /\ rl' = [rl EXCEPT ![q] = [@ EXCEPT !.pc = "Allow",
                                                 !.limiter = limiters[key].limiter]]
            /\ UNCHANGED <<buckets, nextBucket>>
  /\ UNCHANGED <<now, svars, probe, cfg, served, inst, swept>>

\* limiter.Allow() and what the middleware does with its answer
RLAllow(q) ==
  /\ rl[q].pc = "Allow"
  /\ LET id == rl[q].limiter
         b == buckets[id]
         after == [rl EXCEPT ![q] = RLIdle]
     IN /\ rl' = after
        /\ inst' = Record(rl[q].ip, Outcome(AllowOk(b)))
        /\ buckets' = Collect(IF AllowOk(b)
                              THEN [buckets EXCEPT ![id] =
                                      [b EXCEPT !.tokens = Advance(b, now) - 1,
                                                !.last = now]]
                              ELSE buckets,
                              limiters, after)
  /\ UNCHANGED <<now, svars, probe, cfg, limiters, nextBucket, served, swept>>

\* a sweep that drops every entry, whatever its lastSeen
cleanupAllEntries ==
  /\ cfg.enabled
  /\ swept < now \div Interval
  /\ swept' = now \div Interval
  /\ limiters' = <<>>
  /\ buckets' = Collect(buckets, <<>>, rl)
  /\ UNCHANGED <<now, svars, probe, cfg, nextBucket, rl, served, inst>>

\* a sweep that removes nothing
cleanupNothing ==
  /\ cfg.enabled
  /\ swept < now \div Interval
  /\ swept' = now \div Interval
  /\ UNCHANGED <<now, svars, probe, cfg, limiters, buckets, nextBucket, rl, served, inst>>

\* cleanupOldEntries on a tick of the hourly ticker: drop the entries last
\* seen before the cutoff
cleanupOldEntries ==
  /\ cfg.enabled
  /\ swept < now \div Interval
  /\ swept' = now \div Interval
  /\ LET cutoff == now - Interval
         kept == [k \in {x \in DOMAIN limiters : ~(limiters[x].lastSeen < cutoff)} |->
                    limiters[k]]
     IN /\ limiters' = kept
        /\ buckets' = Collect(buckets, kept, rl)
  /\ UNCHANGED <<now, svars, probe, cfg, nextBucket, rl, served, inst>>

\* whether the instant that begins at time t begins clean for ip
CleanAt(ip, t) ==
  /\ \A q \in RLReqs : ~(rl[q].pc # "idle" /\ rl[q].ip = ip)
  /\ limiterKey(ip) \in DOMAIN limiters =>
       LET b == buckets[limiters[limiterKey(ip)].limiter] IN Advance(b, t) = b.burst

\* the instants the rate limiter's clock is looked at
RLInstants == {1, Interval, Interval + 1}

\* time passes up to instant t
RLTick(t) ==
  /\ t > now
  /\ now' = t
  /\ inst' = [ip \in IPs |-> [clean |-> CleanAt(ip, t), outcomes |-> <<>>]]
  /\ UNCHANGED <<svars, probe, cfg, limiters, buckets, nextBucket, rl, served, swept>>

InitRL ==
  /\ InitBase
  /\ cfg \in [enabled : BOOLEAN, rps : 0 .. MaxRps, burst : 0 .. MaxBurst]

NextRL ==
  \/ \E q \in RLReqs : \E r \in Requests : RLStart(q, r)
  \/ \E q \in RLReqs : RLGetLimiter(q)
  \/ \E q \in RLReqs : RLAllow(q)
  \/ cleanupOldEntries
  \/ \E t \in RLInstants : RLTick(t)

SpecRL == InitRL /\ [][NextRL]_vars

(***************************************************************************)
(* Properties of the rate limiter.                                         *)
(***************************************************************************)
\* C9: with rate limiting enabled, of the requests one client IP gets
\* answered within an instant that began clean, the first burst are passed
\* to the next handler and not limited, and every later one is answered 429
\* without reaching the next handler
BurstThenReject ==
  cfg.enabled =>
    \A ip \in IPs :
      inst[ip].clean =>
        \A k \in DOMAIN inst[ip].outcomes :
          inst[ip].outcomes[k] = [limited |-> k > cfg.burst, next |-> k <= cfg.burst]

\* burst requests of one IP went through and request burst + 1 got the 429
BurstThenRejectWitness ==
  /\ cfg.enabled
  /\ cfg.burst >= 1
  /\ \E ip \in IPs :
       /\ inst[ip].clean
       /\ Len(inst[ip].outcomes) = cfg.burst + 1
       /\ inst[ip].outcomes[cfg.burst + 1].limited
       /\ inst[ip].outcomes[cfg.burst].next

\* the IP whose request slot q is handling before or after a step
Actor(q) == IF rl[q].pc = "idle" THEN rl'[q].ip ELSE rl[q].ip

\* C10: a step of a request of IP a leaves the map entry and the bucket of
\* every other IP as they are, and a request is answered 429 only when the
\* bucket created for its own IP holds no token
BucketsIndependent ==
  [][\A q \in RLReqs :
       rl'[q] # rl[q] =>
         /\ \A k \in DOMAIN limiters \ {limiterKey(Actor(q))} :
              k \in DOMAIN limiters' /\ limiters'[k] = limiters[k]
         /\ DOMAIN limiters' \subseteq DOMAIN limiters \cup {limiterKey(Actor(q))}
         /\ \A id \in DOMAIN buckets :
              buckets[id].owner # Actor(q) =>
                (id \in DOMAIN buckets' /\ buckets'[id] = buckets[id])
         /\ (rl[q].pc = "Allow" /\ ~AllowOk(buckets[rl[q].limiter])) =>
              /\ buckets[rl[q].limiter].owner = rl[q].ip
              /\ Advance(buckets[rl[q].limiter], now) < 1]_vars

\* one IP has used up its bucket and was answered 429, and a request of
\* another IP that was answered after it went through on a bucket of its own
BucketsIndependentWitness ==
  /\ cfg.enabled
  /\ cfg.burst >= 1
  /\ \E a \in IPs : \E b \in IPs \ {a} :
       /\ Len(inst[a].outcomes) > cfg.burst
       /\ inst[a].outcomes[Len(inst[a].outcomes)].limited
       /\ limiterKey(a) \in DOMAIN limiters
       /\ limiterKey(b) \in DOMAIN limiters
       /\ limiters[limiterKey(a)].limiter # limiters[limiterKey(b)].limiter
       /\ Advance(buckets[limiters[limiterKey(a)].limiter], now) = 0
       /\ Len(inst[b].outcomes) = 1
       /\ inst[b].outcomes[1].next
       /\ Advance(buckets[limiters[limiterKey(b)].limiter], now) = cfg.burst - 1
       /\ buckets[limiters[limiterKey(b)].limiter].last
            >= buckets[limiters[limiterKey(a)].limiter].last

\* C11: a getLimiter(ip) call returns the bucket the map holds for ip when
\* it returns; it creates a bucket only when the map has no entry for ip,
\* and then exactly one; a caller that overlaps another caller of its IP
\* whose bucket is the map's gets that same bucket; so of the requests of
\* one IP answered within an instant that began clean no more than burst
\* go on to the next handler
GetLimiterAtomic ==
  [][/\ \A q \in RLReqs :
          (rl[q].pc = "getLimiter" /\ rl'[q].pc = "Allow") =>
            LET key == limiterKey(rl[q].ip) IN
              /\ key \in DOMAIN limiters'
              /\ rl'[q].limiter = limiters'[key].limiter
              /\ rl'[q].limiter \in DOMAIN buckets'
              /\ IF key \in DOMAIN limiters
                 THEN /\ limiters'[key].limiter = limiters[key].limiter
                      /\ nextBucket' = nextBucket
                      /\ DOMAIN buckets' = DOMAIN buckets
                 ELSE /\ rl'[q].limiter \notin DOMAIN buckets
                      /\ DOMAIN buckets' = DOMAIN buckets \cup {rl'[q].limiter}
                      /\ nextBucket' = nextBucket + 1
              /\ \A q2 \in RLReqs \ {q} :
                   (rl[q2].pc = "Allow" /\ rl[q2].ip = rl[q].ip
                      /\ key \in DOMAIN limiters
                      /\ limiters[key].limiter = rl[q2].limiter)
                     => rl'[q].limiter = rl[q2].limiter
     /\ cfg.enabled =>
          \A ip \in IPs :
            inst'[ip].clean =>
              Cardinality({k \in DOMAIN inst'[ip].outcomes : inst'[ip].outcomes[k].next})
                <= cfg.burst]_vars

\* two requests of an IP that had no entry hold, at the same time, the one
\* bucket that was created for it
GetLimiterAtomicWitness ==
  /\ cfg.enabled
  /\ \E q \in RLReqs : \E q2 \in RLReqs \ {q} :
       /\ rl[q].pc = "Allow" /\ rl[q2].pc = "Allow"
       /\ rl[q].ip = rl[q2].ip
       /\ rl[q].limiter = rl[q2].limiter
       /\ limiters[limiterKey(rl[q].ip)].limiter = rl[q].limiter
       /\ DOMAIN buckets = {rl[q].limiter}
       /\ nextBucket = 2
       /\ served = 2

\* C12: in every step, an entry leaves the map only if its lastSeen is more
\* than one interval old, an entry that stays keeps its bucket, a
\* getLimiter(ip) call returns the bucket the map holds for ip when it
\* returns, and afterwards every entry points to a bucket of its own that
\* was created for its IP; a request holds a bucket that is no longer the
\* map's only after a sweep
SweepNeverRaces ==
  [][/\ \A k \in DOMAIN limiters :
          IF k \in DOMAIN limiters'
          THEN limiters'[k].limiter = limiters[k].limiter
          ELSE limiters[k].lastSeen < now - Interval
     /\ \A q \in RLReqs :
          (rl[q].pc = "getLimiter" /\ rl'[q].pc = "Allow") =>
            /\ limiterKey(rl[q].ip) \in DOMAIN limiters'
            /\ limiters'[limiterKey(rl[q].ip)].limiter = rl'[q].limiter
            /\ limiters'[limiterKey(rl[q].ip)].lastSeen = now
     /\ \A k \in DOMAIN limiters' :
          /\ limiters'[k].limiter \in DOMAIN buckets'
          /\ limiterKey(buckets'[limiters'[k].limiter].owner) = k
          /\ \A k2 \in DOMAIN limiters' \ {k} :
               limiters'[k2].limiter # limiters'[k].limiter
     /\ \A q \in RLReqs :
          (rl'[q].pc = "Allow"
             /\ ~(/\ limiterKey(rl'[q].ip) \in DOMAIN limiters'
                  /\ limiters'[limiterKey(rl'[q].ip)].limiter = rl'[q].limiter))
            => (swept' >= 1 /\ now' > Interval)]_vars

\* a sweep has dropped the entry of an IP not seen for more than an hour
\* and kept one seen exactly an hour before; the first IP came back and has
\* a new bucket
SweepNeverRacesWitness ==
  /\ swept >= 1
  /\ now = Interval + 1
  /\ \E a \in IPs : \E b \in IPs \ {a} :
       /\ limiterKey(a) \in DOMAIN limiters
       /\ limiterKey(b) \in DOMAIN limiters
       /\ limiters[limiterKey(b)].lastSeen = 1
       /\ limiters[limiterKey(a)].lastSeen = now
       /\ limiters[limiterKey(a)].limiter > limiters[limiterKey(b)].limiter
       /\ nextBucket = 4

(***************************************************************************)
(* Client IP resolution on its own.                                        *)
(***************************************************************************)
\* what a header can hold: an IP literal, something else, or nothing
HeaderTexts == IPs \cup {"unknown", ""}

\* the entries of an X-Forwarded-For header, with or without blanks around
XffEntries == {Entry(pad, text) : pad \in BOOLEAN, text \in HeaderTexts}

\* the sequences over S of length n
SeqsOfLen(S, n) == [1 .. n -> S]

\* every request the resolver can be handed
AllRequests ==
  {[xff |-> x, xri |-> xri, remote |-> [host |-> h, port |-> p]] :
     x \in UNION {SeqsOfLen(XffEntries, n) : n \in 0 .. MaxXff},
     xri \in HeaderTexts, h \in IPs, p \in {"", "4711"}}

\* getClientIP is called, once, on request r
ResolveIP(r) ==
  /\ probe.kind = "none"
  /\ probe' = [kind |-> "getClientIP", request |-> r, ip |-> getClientIP(r)]
  /\ UNCHANGED <<now, svars, cfg, limiters, buckets, nextBucket, rl, served, inst, swept>>

NextIP == \E r \in AllRequests : ResolveIP(r)

SpecIP == Init /\ [][NextIP]_vars

\* C13: the resolved IP is the first X-Forwarded-For entry without its
\* surrounding blanks when that is an IP literal; otherwise X-Real-IP when
\* that is an IP literal; otherwise the host of the remote address
FirstMatchPrecedence ==
  probe.kind = "getClientIP" =>
    LET r == probe.request
        xffOk == Len(r.xff) >= 1 /\ r.xff[1].text \in IPs
        xriOk == r.xri \in IPs
    IN /\ xffOk => probe.ip = r.xff[1].text
       /\ (~xffOk /\ xriOk) => probe.ip = r.xri
       /\ (~xffOk /\ ~xriOk) => probe.ip = r.remote.host

\* both headers hold an IP literal, the X-Forwarded-For one padded and
\* followed by a second entry, and the X-Forwarded-For one was taken
FirstMatchPrecedenceWitness ==
  /\ probe.kind = "getClientIP"
  /\ Len(probe.request.xff) = 2
  /\ probe.request.xff[1].pad
  /\ probe.request.xff[1].text \in IPs
  /\ probe.request.xri \in IPs \ {probe.request.xff[1].text}
  /\ probe.request.remote.host = probe.request.xri
  /\ probe.ip = probe.request.xff[1].text

(***************************************************************************)
(* The authentication gate and the routes behind it.  A request is served  *)
(* in one step: the gate issues at most one GET and the middlewares and    *)
(* the handler after it read only the request's own context.               *)
(***************************************************************************)
MaxGate == 1        \* sessions in the store when a request reaches the router

TokenLength == 26   \* bytes of a token plaintext

\* a plaintext of the wrong length
ShortToken == BogusToken + 1

\* len(token): the empty string, a truncated plaintext, or a full one
TokenLen(t) ==
  IF t = EmptyCookie THEN 0 ELSE IF t = ShortToken THEN TokenLength - 1 ELSE TokenLength

\* DomainValidator accepting a plaintext of any length
ValidateAnyLength(t) == TRUE

\* DomainValidator.ValidateTokenPlaintext followed by Valid()
ValidateTokenPlaintext(t) == TokenLen(t) # 0 /\ TokenLen(t) = TokenLength

\* an Authorization header: the word before the first space and the words
\* after it; set is whether Header.Get returns a non-empty string
NoHeader == [set |-> FALSE, scheme |-> "", rest |-> <<>>]
Header(scheme, rest) == [set |-> TRUE, scheme |-> scheme, rest |-> rest]

\* strings.Split(header, " "): how many parts, the first and the second
SplitLen(h) == 1 + Len(h.rest)
SplitFirst(h) == h.scheme
SplitSecond(h) == h.rest[1]

\* the session a request context carries: ptr tells which object it is
NoAttached == [ptr |-> "nil", session |-> NoSession]
\* a zero-valued session built anew for the request
ZeroSession == [ptr |-> "new", session |-> NoSession]
AnonymousSession == [ptr |-> "AnonymousSession", session |-> NoSession]
NewSession(s) ==
  [ptr |-> "new",
   session |-> [UserID |-> s.UserID, Email |-> s.Email,
                Permissions |-> s.Permissions, Activated |-> s.Activated]]

\* Session.IsAnonymous: identity with the shared instance
IsAnonymous(a) == a.ptr = "AnonymousSession"

\* Permissions.Include: membership by exact string match
Include(perms, code) == \E i \in DOMAIN perms : perms[i] = code

\* what authenticate did with a request
GateResult(error, next, attached, cookieRead, queried) ==
  [error |-> error, next |-> next, attached |-> attached,
   cookieRead |-> cookieRead, queried |-> queried]

\* GetSession in the authentication scope; down: the backend fails the GET
Lookup(token, down) ==
  IF down THEN [err |-> "internal", session |-> NoSession]
  ELSE GetSession(token, ScopeAuthentication)

\* authenticate falling back to the cookie when the header is malformed
authenticateFallThrough(h, c, down) ==
  LET lookup(token, cookieRead) ==
        IF ~ValidateTokenPlaintext(token)
        THEN GateResult("invalid_auth_token", FALSE, NoAttached, cookieRead, FALSE)
        ELSE LET g == Lookup(token, down)
             IN CASE g.err = "ok" ->
                       GateResult("none", TRUE, NewSession(g.session), cookieRead, TRUE)
                  [] g.err = "session_not_found" ->
                       GateResult("invalid_auth_token", FALSE, NoAttached, cookieRead, TRUE)
                  [] OTHER ->
                       GateResult("server_error", FALSE, NoAttached, cookieRead, TRUE)
  IN IF h.set /\ SplitLen(h) = 2 /\ SplitFirst(h) = "Bearer"
     THEN lookup(SplitSecond(h), FALSE)
     ELSE IF c \in {NoCookie, EmptyCookie}
          THEN GateResult("none", TRUE, AnonymousSession, TRUE, FALSE)
          ELSE lookup(c, TRUE)

\* Handler.authenticate for Authorization header h and cms_auth_token cookie c
authenticate(h, c, down) ==
  LET lookup(token, cookieRead) ==
        IF ~ValidateTokenPlaintext(token)
        THEN GateResult("invalid_auth_token", FALSE, NoAttached, cookieRead, FALSE)
        ELSE LET g == Lookup(token, down)
             IN CASE g.err = "ok" ->
                       GateResult("none", TRUE, NewSession(g.session), cookieRead, TRUE)
                  [] g.err = "session_not_found" ->
                       GateResult("invalid_auth_token", FALSE, NoAttached, cookieRead, TRUE)
                  [] OTHER ->
                       GateResult("server_error", FALSE, NoAttached, cookieRead, TRUE)
  IN IF h.set
     THEN IF SplitLen(h) # 2 \/ SplitFirst(h) # "Bearer"
          THEN GateResult("invalid_auth_token", FALSE, NoAttached, FALSE, FALSE)
          ELSE lookup(SplitSecond(h), FALSE)
     ELSE IF c \in {NoCookie, EmptyCookie}
          THEN GateResult("none", TRUE, AnonymousSession, TRUE, FALSE)
          ELSE lookup(c, TRUE)

\* requireActivatedUser testing the activation flag before anonymity
requireActivatedUserFirst(a, inner) ==
  IF ~a.session.Activated THEN "inactive_account"
  ELSE IF IsAnonymous(a) THEN "authentication_required" ELSE inner

\* requireAuthenticatedUser around a handler whose outcome is inner
requireAuthenticatedUser(a, inner) ==
  IF IsAnonymous(a) THEN "authentication_required" ELSE inner

\* requireActivatedUser: its own test, wrapped by requireAuthenticatedUser
requireActivatedUser(a, inner) ==
  requireAuthenticatedUser(a, IF ~a.session.Activated THEN "inactive_account" ELSE inner)

\* requirePermission: its own test, wrapped by requireActivatedUser
requirePermission(code, a, inner) ==
  requireActivatedUser(a, IF ~Include(a.session.Permissions, code) THEN "not_permitted"
                          ELSE inner)

\* mapDomainErrorToHttp for the errors of the gate, 200 when none was written
ErrStatus(error) ==
  CASE error = "none" -> 200
    [] error = "server_error" -> 500
    [] OTHER -> 401

\* the routes of /v1 outside the auth endpoints: whether the route is
\* registered inside the group that uses authenticate, and the permission
\* code of its requirePermissionMiddleware ("" when it has none)
Route(name, handler, gated, perm) ==
  [name |-> name, handler |-> handler, gated |-> gated, perm |-> perm]
PublicRoutes ==
  {Route("POST /v1/contact", "ContactHandler", FALSE, ""),
   Route("GET /v1/resume", "ResumeHandler", FALSE, ""),
   Route("GET /v1/articles", "ListArticles", FALSE, ""),
   Route("GET /v1/articles/slug/{slug}", "GetArticleBySlug", FALSE, "")}
Routes ==
  PublicRoutes \cup
  {Route("POST /v1/articles", "CreateArticle", TRUE, "articles:write"),
   Route("GET /v1/articles/all", "ListAllArticles", TRUE, "articles:read"),
   Route("PATCH /v1/users/deactivate", "DeactivateUser", TRUE, ""),
   Route("DELETE /v1/users", "DeleteUser", TRUE, "")}

\* the call a handler makes to the user repository
NoRepoCall == [op |-> "none", id |-> 0]

\* Handler.DeactivateUser and Handler.DeleteUser: 401 for a nil session,
\* else the repository is called with the session's user id
AccountHandler(op, a) ==
  IF a.ptr = "nil" THEN [status |-> 401, repo |-> NoRepoCall]
  ELSE [status |-> 200, repo |-> [op |-> op, id |-> a.session.UserID]]

\* the middlewares of a route, around its handler: "none" when the handler
\* is reached
Chain(route, g) ==
  IF ~g.next THEN g.error
  ELSE IF route.perm = "" THEN "none"
  ELSE requirePermission(route.perm, g.attached, "none")

\* the router passing a request to a route that is outside the group
Ungated == GateResult("none", TRUE, NoAttached, FALSE, FALSE)

\* one request, from the router to the response
Serve(route, h, c, down) ==
  /\ probe.kind = "none"
  /\ LET g == IF route.gated THEN authenticate(h, c, down) ELSE Ungated
         error == Chain(route, g)
         reached == error = "none"
         acct == IF reached /\ route.handler \in {"DeactivateUser", "DeleteUser"}
                 THEN AccountHandler(route.handler, g.attached)
                 ELSE [status |-> ErrStatus(error), repo |-> NoRepoCall]
     IN probe' = [kind |-> "serve", route |-> route, header |-> h, cookie |-> c,
                  down |-> down,
                  gate |-> g, error |-> error, handler |-> reached,
                  status |-> acct.status, repo |-> acct.repo]
  /\ UNCHANGED <<now, svars, cfg, limiters, buckets, nextBucket, rl, served, inst, swept>>

\* the tokens a client can put in a header or a cookie
GateTokens == (1 .. (nextTok - 1)) \cup {BogusToken, ShortToken, EmptyCookie}

\* the Authorization headers of the model: none, a bearer token, and the
\* shapes that are not "Bearer <token>"
HeaderVals ==
  {NoHeader} \cup {Header("Bearer", <<t>>) : t \in GateTokens}
  \cup {Header("Bearer", <<>>)}
  \cup {Header("bearer", <<t>>) : t \in 1 .. (nextTok - 1)}
  \cup {Header("Bearer", <<t, t>>) : t \in 1 .. (nextTok - 1)}

\* the cms_auth_token cookies of the model
GateCookies == {NoCookie, EmptyCookie, ShortToken} \cup (1 .. (nextTok - 1))

\* the sessions the store holds when requests arrive
GateSessions ==
  {[UserID |-> 1, Email |-> UserEmail(1), Permissions |-> p, Activated |-> a] :
     p \in {<<>>, <<"articles:read">>, <<"articles:read", "articles:write">>},
     a \in BOOLEAN}

\* sessions are stored and expire, then one request is served
NextGate ==
  \/ /\ probe.kind = "none"
     /\ nextTok <= MaxGate
     /\ \E scope \in {ScopeAuthentication, ScopeRefresh}, s \in GateSessions :
          DirectStore("r1", scope, s)
  \/ probe.kind = "none" /\ StoreSessionSet("r1")
  \/ probe.kind = "none" /\ StoreSessionSadd("r1")
  \/ probe.kind = "none" /\ Tick(AccessTTL)
  \/ \E route \in Routes, h \in HeaderVals, c \in GateCookies : Serve(route, h, c, FALSE)

SpecGate == Init /\ [][NextGate]_vars

\* the routes behind the gate, the Session Store failing or not
NextGateDown ==
  \/ /\ probe.kind = "none"
     /\ nextTok <= MaxGate
     /\ \E scope \in {ScopeAuthentication, ScopeRefresh}, s \in GateSessions :
          DirectStore("r1", scope, s)
  \/ probe.kind = "none" /\ StoreSessionSet("r1")
  \/ probe.kind = "none" /\ StoreSessionSadd("r1")
  \/ probe.kind = "none" /\ Tick(AccessTTL)
  \/ \E route \in {x \in Routes : x.handler \in {"CreateArticle", "DeleteUser"}},
        h \in HeaderVals, c \in GateCookies, down \in BOOLEAN : Serve(route, h, c, down)

SpecGateDown == Init /\ [][NextGateDown]_vars

(***************************************************************************)
(* Properties of the authentication gate.                                  *)
(***************************************************************************)
\* the header of the served request is present and is not "Bearer <token>"
MalformedHeader ==
  /\ probe.header.set
  /\ ~(probe.header.scheme = "Bearer" /\ Len(probe.header.rest) = 1)

\* C14: a request whose Authorization header is present but not exactly
\* "Bearer <token>" is rejected by the gate with the invalid-token error;
\* the cookie is not consulted, the store is not queried and the downstream
\* handler is not invoked
MalformedHeaderRejected ==
  (probe.kind = "serve" /\ probe.route.gated /\ MalformedHeader)
    => /\ probe.error = "invalid_auth_token"
       /\ probe.gate.error = "invalid_auth_token"
       /\ ~probe.gate.cookieRead
       /\ ~probe.gate.queried
       /\ ~probe.gate.next
       /\ ~probe.handler
       /\ probe.repo = NoRepoCall

\* a malformed header is rejected although the cookie holds a token that
\* resolves to a session
MalformedHeaderRejectedWitness ==
  /\ probe.kind = "serve" /\ probe.route.gated /\ MalformedHeader
  /\ probe.cookie \in 1 .. (nextTok - 1)
  /\ GetSession(probe.cookie, ScopeAuthentication).err = "ok"
  /\ probe.status = 401

\* C15: a request reaching the gate with no Authorization header and no or
\* an empty cookie gets the shared AnonymousSession attached, the downstream
\* handler is invoked, no error is returned and the store is not queried; a
\* session attached after a successful lookup is a new value, never the
\* shared anonymous instance
AnonymousWhenNoCredential ==
  (probe.kind = "serve" /\ probe.route.gated)
    => /\ (~probe.header.set /\ probe.cookie \in {NoCookie, EmptyCookie})
            => /\ IsAnonymous(probe.gate.attached)
               /\ probe.gate.attached.session = NoSession
               /\ probe.gate.next
               /\ probe.gate.error = "none"
               /\ ~probe.gate.queried
       /\ (probe.gate.queried /\ probe.gate.error = "none")
            => /\ probe.gate.attached.ptr = "new"
               /\ ~IsAnonymous(probe.gate.attached)
               /\ probe.gate.next

\* an account route is reached anonymously while the store holds a session
AnonymousWhenNoCredentialWitness ==
  /\ probe.kind = "serve" /\ probe.route.gated
  /\ ~probe.header.set /\ probe.cookie = EmptyCookie
  /\ IsAnonymous(probe.gate.attached)
  /\ probe.handler
  /\ \E t \in 1 .. (nextTok - 1) : GetSession(t, ScopeAuthentication).err = "ok"

\* the served request carries a bearer token or, without a header, a
\* cookie whose plaintext has the wrong length
WrongLengthToken ==
  \/ /\ probe.header.set
     /\ probe.header.scheme = "Bearer" /\ Len(probe.header.rest) = 1
     /\ TokenLen(probe.header.rest[1]) # TokenLength
  \/ /\ ~probe.header.set
     /\ probe.cookie \notin {NoCookie, EmptyCookie}
     /\ TokenLen(probe.cookie) # TokenLength

\* C16: on every route, the public ones included, a request with a
\* malformed Authorization header or a token of the wrong length gets the
\* invalid-token error and its handler is not invoked; a request with no
\* credential reaches the public handler
MalformedRejectedEverywhere ==
  probe.kind = "serve"
    => /\ (MalformedHeader \/ WrongLengthToken)
            => probe.error = "invalid_auth_token" /\ ~probe.handler
       /\ (~probe.header.set /\ probe.cookie = NoCookie /\ ~probe.route.gated)
            => probe.error = "none" /\ probe.handler

\* the permission codes of the session attached to the served request
Held == {probe.gate.attached.session.Permissions[i] :
           i \in DOMAIN probe.gate.attached.session.Permissions}

\* C17: a handler behind require-permission(code) is invoked only for a
\* session that is not anonymous, is activated and holds the code; the
\* first failing check decides the error: anonymous gets
\* authentication-required, unactivated inactive-account, an activated
\* session without the code not-permitted
RequirePermissionOrder ==
  (probe.kind = "serve" /\ probe.route.perm # "" /\ probe.gate.next)
    => LET a == probe.gate.attached
       IN /\ probe.handler <=> (~IsAnonymous(a) /\ a.session.Activated
                                /\ probe.route.perm \in Held)
          /\ IsAnonymous(a) => probe.error = "authentication_required"
          /\ (~IsAnonymous(a) /\ ~a.session.Activated)
               => probe.error = "inactive_account"
          /\ (~IsAnonymous(a) /\ a.session.Activated /\ probe.route.perm \notin Held)
               => probe.error = "not_permitted"

\* an unactivated session that holds the code is refused as inactive
RequirePermissionOrderWitness ==
  /\ probe.kind = "serve" /\ probe.route.perm = "articles:write" /\ probe.gate.next
  /\ ~probe.gate.attached.session.Activated
  /\ "articles:write" \in Held
  /\ probe.error = "inactive_account"
  /\ ~probe.handler

\* C19: PATCH /v1/users/deactivate and DELETE /v1/users require
\* authentication: a request presenting no credential gets 401 and the
\* user repository is not called for it, in particular not with user id 0
AccountRoutesRequireAuth ==
  (/\ probe.kind = "serve"
   /\ probe.route.handler \in {"DeactivateUser", "DeleteUser"}
   /\ ~probe.header.set
   /\ probe.cookie \in {NoCookie, EmptyCookie})
    => /\ probe.status = 401
       /\ probe.repo = NoRepoCall

(***************************************************************************)
(* Account activation.  The users table is written inside a transaction:   *)
(* the UPDATE of a row holds the row until the transaction ends.           *)
(***************************************************************************)
MaxActivate == 1    \* activation tokens issued in one behaviour

\* the session RegisterUser stores under the activation token of user u
RegisteredSession(u) ==
  [UserID |-> u, Email |-> UserEmail(u), Permissions |-> <<>>, Activated |-> FALSE]

\* the activation email carries token t once its StoreSession has returned
Emailed(t) ==
  /\ t \in 1 .. (nextTok - 1)
  /\ \A y \in Reqs : ~(req[y].kind = "StoreSession" /\ req[y].acc = t)

\* how many ActivateUser calls with token t have succeeded
Activations(t) == IF t \in DOMAIN activations THEN activations[t] ELSE 0

\* ActivateUser, lines 58-69: the transaction begins and the token is
\* looked up in the activation scope
ActivateStart(r, t) ==
  /\ req[r].kind = "idle"
  /\ Emailed(t) \/ t = BogusToken
  /\ Enter(r, CallGet([Idle EXCEPT !.kind = "activate", !.pc = "get", !.cookie = t],
                      t, ScopeActivation))
  /\ UNCHANGED <<now, kv, idx, nextTok, stored, lastResp>>
  /\ UNCHANGED <<rlvars, users, activations>>

\* ActivateUser, lines 71-84: the user row is read and updated (waiting
\* while another transaction holds it), then the bulk delete is called
ActivateUpdate(r) ==
  /\ req[r].kind = "activate" /\ req[r].pc = "update"
  /\ users[req[r].user].lock \in {"none", r}
  /\ users' = [users EXCEPT ![req[r].user] = [activated |-> TRUE, lock |-> r]]
  /\ req' = [req EXCEPT ![r] = CallDeleteAll([req[r] EXCEPT !.pc = "delAll"],
                                             req[r].user, ScopeActivation)]
  /\ UNCHANGED <<now, kv, idx, nextTok, stored, lastResp, activations>>
  /\ UNCHANGED rlvars

\* ActivateUser, lines 86-94: the commit, after which the user is returned
ActivateCommit(r) ==
  /\ req[r].kind = "activate" /\ req[r].pc = "commit"
  /\ users' = [users EXCEPT ![req[r].user].lock = "none"]
  /\ activations' = [t \in DOMAIN activations \cup {req[r].cookie} |->
                       IF t = req[r].cookie THEN Activations(t) + 1 ELSE activations[t]]
  /\ Proceed(r, Done(req[r], 200))
  /\ UNCHANGED <<now, kv, idx, nextTok, stored>>
  /\ UNCHANGED rlvars

\* registrations and activations, concurrently
NextActivate ==
  \/ /\ nextTok <= MaxActivate
     /\ \E r \in Reqs : DirectStore(r, ScopeActivation, RegisteredSession(2))
  \/ \E r \in Reqs : \E t \in (1 .. (nextTok - 1)) \cup {BogusToken} : ActivateStart(r, t)
  \/ \E r \in Reqs : ActivateUpdate(r)
  \/ \E r \in Reqs : ActivateCommit(r)
  \/ \E r \in Reqs : StoreSessionSet(r)
  \/ \E r \in Reqs : StoreSessionSadd(r)
  \/ \E r \in Reqs : GetSessionGet(r)
  \/ \E r \in Reqs : DeleteAllSmembers(r)
  \/ \E r \in Reqs : DeleteAllDel(r)
  \/ \E r \in Reqs : DeleteAllDelIndex(r)
  \/ Tick(DefaultTTL)

SpecActivate == Init /\ [][NextActivate]_vars

\* C18: activation tokens are one-shot: at most one ActivateUser(t) call
\* ever succeeds for a token t, concurrent calls included, and once one
\* has succeeded t no longer resolves in the activation scope
ActivationOneShot ==
  \A t \in DOMAIN activations :
    /\ activations[t] <= 1
    /\ GetSession(t, ScopeActivation).err = "session_not_found"

(***************************************************************************)
(* DeleteSession.                                                          *)
(***************************************************************************)
\* DeleteSession, lines 163-175: the key is built and the session looked up
\* in the authentication scope; not-found is not returned
DeleteSessionGet(r) ==
  /\ req[r].apc = "DeleteSession"
  /\ LET q == req[r]
         res == GetSession(q.atoken, ScopeAuthentication)
     IN IF res.err \notin {"ok", "session_not_found"}
        THEN Proceed(r, Resume(q, res.err, NoSession, nextTok))
        ELSE /\ req' = [req EXCEPT ![r].apc = "DeleteSession_del",
                                   ![r].asess = res.session,
                                   ![r].auser = res.session.UserID,
                                   ![r].pending = IF res.err = "ok" THEN {q.atoken}
                                                  ELSE {}]
             /\ UNCHANGED lastResp
  /\ UNCHANGED <<now, kv, idx, nextTok, stored>>
  /\ UNCHANGED <<rlvars, users, activations>>

\* DeleteSession, lines 177-181: DEL of the session key; without a session
\* found the call returns nil here
DeleteSessionDel(r) ==
  /\ req[r].apc = "DeleteSession_del"
  /\ LET q == req[r]
     IN /\ kv' = CmdDel(buildKey(q.atoken, ScopeAuthentication).key)
        /\ stored' = [x \in DOMAIN stored \ {<<q.atoken, ScopeAuthentication>>} |->
                        stored[x]]
        /\ IF q.pending = {}
           THEN Proceed(r, Resume(q, "ok", NoSession, nextTok))
           ELSE /\ req' = [req EXCEPT ![r].apc = "DeleteSession_srem"]
                /\ UNCHANGED lastResp
  /\ UNCHANGED <<now, idx, nextTok>>
  /\ UNCHANGED <<rlvars, users, activations>>

\* DeleteSession, lines 183-190: SREM of the token from the user's index
\* (its error ignored), then nil is returned
DeleteSessionSrem(r) ==
  /\ req[r].apc = "DeleteSession_srem"
  /\ LET q == req[r]
     IN /\ idx' = CmdSrem(buildUserIndexKey(q.asess.UserID, ScopeAuthentication), q.atoken)
        /\ Proceed(r, Resume(q, "ok", NoSession, nextTok))
  /\ UNCHANGED <<now, kv, nextTok, stored>>
  /\ UNCHANGED <<rlvars, users, activations>>

\* a direct caller of DeleteSession
DirectDelete(r, token) ==
  /\ req[r].kind = "idle"
  /\ Enter(r, CallDelete([Idle EXCEPT !.kind = "DeleteSession", !.cookie = token], token))
  /\ UNCHANGED <<now, kv, idx, nextTok, stored, lastResp>>
  /\ UNCHANGED <<rlvars, users, activations>>

\* sessions are stored and single sessions deleted, concurrently
NextDelete ==
  \/ \E r \in Reqs, scope \in {ScopeAuthentication, ScopeRefresh}, s \in SessionVals :
       DirectStore(r, scope, s)
  \/ \E r \in Reqs : \E t \in Presentable : DirectDelete(r, t)
  \/ \E r \in Reqs : StoreSessionSet(r)
  \/ \E r \in Reqs : StoreSessionSadd(r)
  \/ \E r \in Reqs : DeleteSessionGet(r)
  \/ \E r \in Reqs : DeleteSessionDel(r)
  \/ \E r \in Reqs : DeleteSessionSrem(r)
  \/ Tick(AccessTTL)

SpecDelete == Init /\ [][NextDelete]_vars

\* the session of token t is gone from the store and from user u's index
Removed(t, u) ==
  /\ buildKey(t, ScopeAuthentication).key \notin DOMAIN kv'
  /\ buildUserIndexKey(u, ScopeAuthentication) \in DOMAIN idx'
       => t \notin idx'[buildUserIndexKey(u, ScopeAuthentication)]

\* C20: DeleteSession(token) removes the primary record and the token's
\* entry in the user's authentication index when an authentication-scope
\* session exists for the token, and signals SessionNotFound when none is
\* found under that scope
DeleteSessionContract ==
  [][\A r \in Reqs :
       (req[r].kind = "DeleteSession" /\ req'[r].kind = "idle") =>
         IF req[r].pending # {}
         THEN lastResp'.status = 200 /\ Removed(req[r].atoken, req[r].asess.UserID)
         ELSE lastResp'.status = 404]_vars

(***************************************************************************)
(* The adapter under one caller at a time.                                 *)
(***************************************************************************)
\* stores, single deletes and bulk deletes, each completed before the next
NextSeq ==
  \/ \E scope \in Scopes, s \in SessionVals : DirectStore("r1", scope, s)
  \/ \E t \in Presentable : DirectDelete("r1", t)
  \/ \E u \in Users, scope \in Scopes : DirectDeleteAll("r1", u, scope)
  \/ StoreSessionSet("r1")
  \/ StoreSessionSadd("r1")
  \/ DeleteSessionGet("r1")
  \/ DeleteSessionDel("r1")
  \/ DeleteSessionSrem("r1")
  \/ DeleteAllSmembers("r1")
  \/ DeleteAllDel("r1")
  \/ DeleteAllDelIndex("r1")
  \/ \E t \in {AccessTTL, DefaultTTL} : Tick(t)

SpecSeq == Init /\ [][NextSeq]_vars

\* the members of the index of (u, scope) after the step
MembersAfter(u, scope) ==
  IF buildUserIndexKey(u, scope) \in DOMAIN idx'
  THEN idx'[buildUserIndexKey(u, scope)] ELSE {}

\* C21: between completed StoreSession, DeleteSession and
\* DeleteAllSessionsForUser operations every resolvable session (token,
\* scope) of user u has its token in the index of (u, scope); a token removed
\* by a single or a bulk delete is no longer in that index; an index entry
\* without a record comes from an expiry only
IndexConsistent ==
  [][/\ (\A r \in Reqs : req'[r].kind = "idle") =>
          \A t \in 1 .. (nextTok' - 1), scope \in Scopes :
            /\ buildKey(t, scope).key \in DOMAIN kv'
                 => t \in MembersAfter(kv'[buildKey(t, scope).key].val.user_id, scope)
            /\ \A u \in Users :
                 (t \in MembersAfter(u, scope) /\ buildKey(t, scope).key \notin DOMAIN kv'
                  /\ buildKey(t, scope).key \in DOMAIN kv)
                   => now' > now
     /\ \A r \in Reqs :
          (req[r].kind = "DeleteSession" /\ req[r].pending # {} /\ req'[r].kind = "idle")
            => /\ buildKey(req[r].atoken, ScopeAuthentication).key \notin DOMAIN kv'
               /\ req[r].atoken \notin MembersAfter(req[r].asess.UserID, ScopeAuthentication)
     /\ \A r \in Reqs :
          (req[r].kind = "DeleteAll" /\ req'[r].kind = "idle")
            => /\ MembersAfter(req[r].auser, req[r].ascope) = {}
               /\ \A t \in 1 .. (nextTok - 1) :
                    (buildKey(t, req[r].ascope).key \in DOMAIN kv'
                       => kv'[buildKey(t, req[r].ascope).key].val.user_id # req[r].auser)
    ]_vars

\* after a store, a single delete and a bulk delete the sessions left
\* resolve and are indexed, and an index holds an entry whose record expired
IndexConsistentWitness ==
  /\ \A r \in Reqs : req[r].kind = "idle"
  /\ lastResp.kind = "DeleteSession"
  /\ \E t \in 1 .. (nextTok - 1) :
       /\ buildKey(t, ScopeRefresh).key \in DOMAIN kv
       /\ t \in CmdSmembers(buildUserIndexKey(kv[buildKey(t, ScopeRefresh).key].val.user_id,
                                              ScopeRefresh))
  /\ \E t \in 1 .. (nextTok - 1), u \in Users :
       /\ t \in CmdSmembers(buildUserIndexKey(u, ScopeAuthentication))
       /\ buildKey(t, ScopeAuthentication).key \notin DOMAIN kv
  /\ now >= AccessTTL

\* C22: the lifetime of a stored session depends on its scope alone and is
\* the lifetime of the token issued for that scope: 10 minutes for
\* authentication, 4 days for refresh, 24 hours for activation; the session
\* resolves until the token's expiry and not afterwards
LifetimeByScope ==
  /\ \A k \in DOMAIN stored :
       LET key == buildKey(k[1], k[2]).key
       IN /\ key \in DOMAIN kv
          /\ kv[key].exp = stored[k].at + Lifetime(k[2])
          /\ kv[key].val.expires_at = stored[k].at + Lifetime(k[2])
          /\ GetSession(k[1], k[2]).err = "ok"
  /\ \A t \in 1 .. (nextTok - 1), scope \in Scopes :
       GetSession(t, scope).err = "ok" =>
         /\ <<t, scope>> \in DOMAIN stored
         /\ now < stored[<<t, scope>>].at + Lifetime(scope)
  /\ Lifetime(ScopeAuthentication) = 600
  /\ Lifetime(ScopeRefresh) = 4 * 24 * 3600
  /\ Lifetime(ScopeActivation) = 24 * 3600

\* ten minutes after the first stores an authentication session is gone,
\* its index entry left behind, while a refresh session still resolves
LifetimeByScopeWitness ==
  /\ now = AccessTTL
  /\ \A r \in Reqs : req[r].kind = "idle"
  /\ \E t \in 1 .. (nextTok - 1), u \in Users :
       /\ t \in CmdSmembers(buildUserIndexKey(u, ScopeAuthentication))
       /\ GetSession(t, ScopeAuthentication).err = "session_not_found"
  /\ \E t \in 1 .. (nextTok - 1) :
       /\ GetSession(t, ScopeRefresh).err = "ok"
       /\ stored[<<t, ScopeRefresh>>].at = 0

(***************************************************************************)
(* Retrier.Do.  probe holds the call in progress: its configuration, the   *)
(* loop counter, the backoff timer, the context and what fn returned.      *)
(***************************************************************************)
MaxRetries == 2     \* largest maxRetries of a Retrier
MaxDelay == 2       \* largest maxDelay of a Retrier, in ticks

\* the errors fn returns: pq errors by code, net errors, and plain messages
Err(kind, code) == [kind |-> kind, code |-> code]
NilErr == Err("nil", "")
FnErrors ==
  {Err("pq", "08006"), Err("pq", "42501"), Err("net", "timeout"),
   Err("msg", "connection refused"), Err("msg", "duplicate key")}

\* isRetryableError treating every error as retryable
isRetryableErrorAlways(e) == TRUE

\* Retrier.isRetryableError
isRetryableError(e) ==
  CASE e.kind = "net" -> TRUE
    [] e.kind = "pq" -> e.code \in {"53300", "53400", "08000", "08003", "08006",
                                    "08001", "08004"}
    [] OTHER -> e.code \in {"connection refused", "connection reset by peer",
                            "no such host", "network is unreachable", "i/o timeout",
                            "connection timeout", "temporary failure",
                            "server is not ready"}

\* math.Pow(2, n)
RECURSIVE Pow2(_)
Pow2(n) == IF n <= 0 THEN 1 ELSE 2 * Pow2(n - 1)

\* Retrier.calculateDelay
calculateDelay(r, attempt) == Min(r.initialDelay * Pow2(attempt - 1), r.maxDelay)

\* what Do returned: nil, fn's error as it is, or an error wrapping one
Result(tag, err) == [tag |-> tag, err |-> err]
Running == Result("running", NilErr)

\* Do, lines 32-35: the call begins; with maxRetries < 0 the loop is skipped
\* and lastErr, nil, is returned
DoStart(maxRetries, initialDelay, maxDelay, done) ==
  /\ probe.kind = "none"
  /\ probe' = [kind |-> "Do", maxRetries |-> maxRetries, initialDelay |-> initialDelay,
               maxDelay |-> maxDelay, attempt |-> 0, left |-> 0, done |-> done,
               log |-> <<>>,
               pc |-> IF 0 <= maxRetries THEN "fn" ELSE "returned",
               result |-> IF 0 <= maxRetries THEN Running ELSE Result("nil", NilErr)]
  /\ UNCHANGED <<now, svars, cfg, limiters, buckets, nextBucket, rl, served, inst, swept>>

\* Do, lines 46-62 and 35-37: fn returns e; nil and a non-retryable error
\* end the call, a retryable one ends it at the last attempt and otherwise
\* starts the backoff timer
DoFn(e) ==
  /\ probe.kind = "Do" /\ probe.pc = "fn"
  /\ probe' =
       LET p == [probe EXCEPT !.log = Append(probe.log, e)]
       IN IF e = NilErr
          THEN [p EXCEPT !.pc = "returned", !.result = Result("nil", NilErr)]
          ELSE IF ~isRetryableError(e)
          THEN [p EXCEPT !.pc = "returned", !.result = Result("err", e)]
          ELSE IF probe.attempt = probe.maxRetries
          THEN [p EXCEPT !.pc = "returned", !.result = Result("max_retries", e)]
          ELSE [p EXCEPT !.pc = "select", !.attempt = probe.attempt + 1,
                         !.left = calculateDelay(probe, probe.attempt + 1)]
  /\ UNCHANGED <<now, svars, cfg, limiters, buckets, nextBucket, rl, served, inst, swept>>

\* Do, lines 39-43: the select is entered; a channel that is ready is
\* taken (either, when both are), else the call blocks
DoSelect(takeTimer) ==
  /\ probe.kind = "Do" /\ probe.pc = "select"
  /\ probe' =
       IF probe.done /\ (probe.left > 0 \/ ~takeTimer)
       THEN [probe EXCEPT !.pc = "returned", !.result = Result("cancelled", NilErr)]
       ELSE IF probe.left = 0 THEN [probe EXCEPT !.pc = "fn"]
       ELSE [probe EXCEPT !.pc = "blocked"]
  /\ UNCHANGED <<now, svars, cfg, limiters, buckets, nextBucket, rl, served, inst, swept>>

\* a tick of the backoff timer; at zero time.After delivers and the loop
\* goes on to fn
DoTimer ==
  /\ probe.kind = "Do" /\ probe.pc = "blocked"
  /\ probe' = [probe EXCEPT !.left = probe.left - 1,
                            !.pc = IF probe.left = 1 THEN "fn" ELSE "blocked"]
  /\ UNCHANGED <<now, svars, cfg, limiters, buckets, nextBucket, rl, served, inst, swept>>

\* the context is cancelled or times out; a call blocked in the select
\* returns the cancellation error (line 42)
DoCancel ==
  /\ probe.kind = "Do" /\ probe.pc # "returned" /\ ~probe.done
  /\ probe' = IF probe.pc = "blocked"
              THEN [probe EXCEPT !.done = TRUE, !.pc = "returned",
                                 !.result = Result("cancelled", NilErr)]
              ELSE [probe EXCEPT !.done = TRUE]
  /\ UNCHANGED <<now, svars, cfg, limiters, buckets, nextBucket, rl, served, inst, swept>>

NextRetry ==
  \/ \E m \in -1 .. MaxRetries, i \in 0 .. 1, d \in 1 .. MaxDelay, done \in BOOLEAN :
       DoStart(m, i, d, done)
  \/ \E e \in FnErrors \cup {NilErr} : DoFn(e)
  \/ \E takeTimer \in BOOLEAN : DoSelect(takeTimer)
  \/ DoTimer
  \/ DoCancel

\* fn returns, the select is evaluated and the timer runs
SpecRetry ==
  /\ Init /\ [][NextRetry]_vars
  /\ WF_vars(\E e \in FnErrors \cup {NilErr} : DoFn(e))
  /\ WF_vars(\E takeTimer \in BOOLEAN : DoSelect(takeTimer))
  /\ WF_vars(DoTimer)

\* the errors of the model that are worth a retry: connection failure,
\* network timeout, connection refused
Retryable == {Err("pq", "08006"), Err("net", "timeout"), Err("msg", "connection refused")}

\* what a call that has returned must have returned, given what fn returned
Returned ==
  LET n == Len(probe.log)
  IN CASE probe.result.tag = "nil" ->
            IF n = 0 THEN probe.maxRetries < 0 ELSE probe.log[n] = NilErr
       [] probe.result.tag = "err" ->
            /\ n >= 1 /\ probe.result.err = probe.log[n]
            /\ probe.log[n] \notin Retryable \cup {NilErr}
       [] probe.result.tag = "max_retries" ->
            /\ n = probe.maxRetries + 1
            /\ probe.result.err = probe.log[n] /\ probe.log[n] \in Retryable
       [] probe.result.tag = "cancelled" ->
            /\ probe.done /\ n >= 1 /\ n <= probe.maxRetries
            /\ probe.log[n] \in Retryable
       [] OTHER -> FALSE

\* C23: Retrier.Do terminates and invokes fn at most maxRetries+1 times; it
\* returns nil at the first success, fn's error unchanged at the first
\* non-retryable error, a cancellation error with no further invocation
\* when the context is done during a backoff wait, and "max retries
\* exceeded" wrapping the last error when all maxRetries+1 invocations fail
\* with retryable errors
DoTerminates ==
  /\ [](probe.kind = "Do" =>
          /\ Len(probe.log) <= probe.maxRetries + 1
          /\ \A i \in 1 .. (Len(probe.log) - 1) : probe.log[i] \in Retryable
          /\ probe.pc = "returned" => Returned
          /\ (probe.pc # "returned" /\ Len(probe.log) >= 1)
               => probe.log[Len(probe.log)] \in Retryable)
  /\ [][(/\ probe.kind = "Do"
         /\ probe.pc \in {"select", "blocked"}
         /\ probe.left > 0
         /\ probe.done \/ probe.pc = "blocked"
         /\ probe'.done)
          => probe'.result = Result("cancelled", NilErr) /\ probe'.log = probe.log]_vars
  /\ (probe.kind = "Do") ~> (probe.kind = "Do" /\ probe.pc = "returned")

\* every one of three invocations failed with a retryable error
DoTerminatesWitness ==
  /\ probe.kind = "Do" /\ probe.pc = "returned"
  /\ probe.maxRetries = 2 /\ Len(probe.log) = 3
  /\ probe.result.tag = "max_retries"
  /\ probe.result.err = probe.log[3]

\* the token the gate takes from the served request: the bearer token of a
\* well-formed header, else the cookie
Presented ==
  IF probe.header.set THEN probe.header.rest[1] ELSE probe.cookie

\* C24: for a token of 26 characters a lookup that finds no session (or an
\* expired one) yields the invalid-token error (401), any other lookup
\* failure an internal error (500); either way the downstream handler is not
\* invoked and no session is attached; a token of another length is
\* rejected with invalid-token before the store is queried
LookupFailureRejected ==
  (/\ probe.kind = "serve" /\ probe.route.gated
   /\ ~MalformedHeader
   /\ probe.header.set \/ probe.cookie \notin {NoCookie, EmptyCookie})
    => /\ TokenLen(Presented) # TokenLength
            => /\ probe.error = "invalid_auth_token" /\ probe.status = 401
               /\ ~probe.gate.queried /\ ~probe.handler
               /\ probe.gate.attached = NoAttached
       /\ (TokenLen(Presented) = TokenLength /\ probe.down)
            => /\ probe.error = "server_error" /\ probe.status = 500
               /\ ~probe.gate.next /\ ~probe.handler
               /\ probe.gate.attached = NoAttached
       /\ (/\ TokenLen(Presented) = TokenLength /\ ~probe.down
           /\ buildKey(Presented, ScopeAuthentication).key \notin DOMAIN kv)
            => /\ probe.error = "invalid_auth_token" /\ probe.status = 401
               /\ ~probe.gate.next /\ ~probe.handler
               /\ probe.gate.attached = NoAttached

\* the store fails while the cookie holds a token whose session is there
LookupFailureRejectedWitness ==
  /\ probe.kind = "serve" /\ probe.route.gated
  /\ ~probe.header.set /\ probe.cookie \in 1 .. (nextTok - 1)
  /\ buildKey(probe.cookie, ScopeAuthentication).key \in DOMAIN kv
  /\ probe.down
  /\ probe.status = 500

(***************************************************************************)
(* Backend failures and the order of the steps of one request.             *)
(***************************************************************************)
\* the valkey command slot r is about to issue fails: SET, SADD, GET,
\* SMEMBERS or the DEL of the index; the adapter returns the error
CommandFails(r) ==
  /\ req[r].apc \in {"StoreSession", "StoreSession_sadd", "GetSession", "DeleteAll",
                     "DeleteAll_delidx"}
  /\ Proceed(r, Resume(req[r], "internal", NoSession, nextTok))
  /\ UNCHANGED <<now, kv, idx, nextTok, stored>>
  /\ UNCHANGED <<rlvars, users, activations>>

\* logins (one at a time) and logouts of one account over a backend that
\* can fail
NextOrder ==
  \/ LoginStart("r1", 1, MaxTokens)
  \/ \E r \in Reqs : \E c \in CookieVals : LogoutStart(r, c)
  \/ \E r \in Reqs : StoreSessionSet(r)
  \/ \E r \in Reqs : StoreSessionSadd(r)
  \/ \E r \in Reqs : GetSessionGet(r)
  \/ \E r \in Reqs : DeleteAllSmembers(r)
  \/ \E r \in Reqs : DeleteAllDel(r)
  \/ \E r \in Reqs : DeleteAllDelIndex(r)
  \/ \E r \in Reqs : CommandFails(r)

SpecOrder == Init /\ [][NextOrder]_vars

\* the adapter call slot q is in: operation, token, scope, user
CallOf(q) ==
  <<IF q.apc \in {"DeleteAll", "DeleteAll_del", "DeleteAll_delidx"} THEN "DeleteAll"
    ELSE IF q.apc \in {"StoreSession", "StoreSession_sadd"} THEN "StoreSession"
    ELSE q.apc,
    q.atoken, q.ascope, q.auser>>

\* C25: the steps of one request keep their order.  Login: credentials are
\* verified, then the bulk delete of the authentication scope, then that of
\* the refresh scope, then the store of the access session, then that of the
\* refresh session, and only then the cookie is set.  Logout: the refresh
\* session is resolved, then the two bulk deletes, then the cookie is
\* cleared.  A bulk delete that fails ends the request with an internal
\* error and none of the later steps
StepOrder ==
  [][\A r \in Reqs :
       LET q == req[r]
           q2 == req'[r]
       IN /\ (q.kind = "idle" /\ q2.kind = "login")
               => q2.pc = "delAuth"
                  /\ CallOf(q2) = <<"DeleteAll", 0, ScopeAuthentication, q2.user>>
          /\ (q.kind = "login" /\ q2.kind = "login")
               => /\ CallOf(q2) # CallOf(q) => q2.pc # q.pc
                  /\ q2.pc # q.pc =>
                       \/ /\ q.pc = "delAuth" /\ q2.pc = "delRefresh"
                          /\ CallOf(q2) = <<"DeleteAll", 0, ScopeRefresh, q.user>>
                       \/ /\ q.pc = "delRefresh" /\ q2.pc = "storeAcc"
                          /\ CallOf(q2) = <<"StoreSession", q.acc, ScopeAuthentication, q.user>>
                          /\ kv' = kv
                       \/ /\ q.pc = "storeAcc" /\ q2.pc = "storeRef"
                          /\ CallOf(q2) = <<"StoreSession", q.ref, ScopeRefresh, q.user>>
                          /\ q.acc \in CmdSmembers(buildUserIndexKey(q.user, ScopeAuthentication))'
          /\ (q.kind = "login" /\ q2.kind = "idle")
               => /\ lastResp'.kind = "login"
                  /\ IF q.pc = "storeRef" /\ idx' # idx
                     THEN lastResp'.status = 201 /\ lastResp'.cookie = q.ref
                     ELSE /\ lastResp'.status = 500 /\ lastResp'.cookie = NoCookie
                          /\ kv' = kv /\ idx' = idx
                  /\ q.pc \in {"delAuth", "delRefresh"}
                       => /\ buildKey(q.acc, ScopeAuthentication).key \notin DOMAIN kv'
                          /\ buildKey(q.ref, ScopeRefresh).key \notin DOMAIN kv'
          /\ (q.kind = "idle" /\ q2.kind = "logout")
               => q2.pc = "get"
                  /\ CallOf(q2) = <<"GetSession", q2.cookie, ScopeRefresh, 0>>
          /\ (q.kind = "logout" /\ q2.kind = "logout")
               => /\ CallOf(q2) # CallOf(q) => q2.pc # q.pc
                  /\ q2.pc # q.pc =>
                       \/ /\ q.pc = "get" /\ q2.pc = "delAuth"
                          /\ GetSession(q.cookie, ScopeRefresh).err = "ok"
                          /\ CallOf(q2) = <<"DeleteAll", 0, ScopeAuthentication,
                                            GetSession(q.cookie, ScopeRefresh).session.UserID>>
                          /\ kv' = kv /\ idx' = idx
                       \/ /\ q.pc = "delAuth" /\ q2.pc = "delRefresh"
                          /\ CallOf(q2) = <<"DeleteAll", 0, ScopeRefresh, q.user>>
          /\ (q.kind = "logout" /\ q2.kind = "idle")
               => /\ lastResp'.kind = "logout"
                  /\ lastResp'.cookie = EmptyCookie
                       => lastResp'.status = 200 /\ q.pc \in {"get", "delRefresh"}
                  /\ lastResp'.status = 500
                       => /\ q.pc \in {"delAuth", "delRefresh"}
                          /\ kv' = kv /\ idx' = idx
                          /\ lastResp'.cookie = NoCookie
                  /\ lastResp'.status \in {200, 500}]_vars

\* a login has run its four adapter calls in order and answered 201 with
\* the cookie of the refresh session it stored
StepOrderWitness ==
  /\ lastResp.kind = "login" /\ lastResp.status = 201
  /\ lastResp.cookie \in CmdSmembers(buildUserIndexKey(1, ScopeRefresh))
  /\ lastResp.token \in CmdSmembers(buildUserIndexKey(1, ScopeAuthentication))
  /\ \A r \in Reqs : req[r].kind = "idle"

(***************************************************************************)
(* userService.RegisterUser: the transaction, the activation session and   *)
(* the activation email.                                                   *)
(***************************************************************************)
NoMail == 0     \* no activation email was sent

\* the registration in progress: its transaction, what it returned and the
\* token its email carried
Registration(u, token, tx, result) ==
  [kind |-> "RegisterUser", user |-> u, token |-> token, tx |-> tx, result |-> result,
   mail |-> NoMail, storeFailed |-> FALSE]

\* RegisterUser, lines 23-43: Begin, CreateUser, GenerateToken and the call
\* of StoreSession; a failing Begin or CreateUser returns at once
RegisterStart(r, outcome) ==
  /\ probe.kind = "none"
  /\ req[r].kind = "idle"
  /\ CASE outcome = "begin_fails" ->
            /\ probe' = Registration(2, 0, "none", "internal")
            /\ UNCHANGED <<req, nextTok>>
       [] outcome = "create_fails" ->
            /\ probe' = Registration(2, 0, "rolledback", "duplicate_email")
            /\ UNCHANGED <<req, nextTok>>
       [] OTHER ->
            /\ probe' = Registration(2, nextTok, "open", "running")
            /\ nextTok' = nextTok + 1
            /\ Enter(r, CallStore([Idle EXCEPT !.kind = "register", !.pc = "store",
                                               !.user = 2, !.acc = nextTok],
                                  nextTok, ScopeActivation, RegisteredSession(2)))
  /\ UNCHANGED <<now, kv, idx, stored, lastResp, users, activations>>
  /\ UNCHANGED <<cfg, limiters, buckets, nextBucket, rl, served, inst, swept>>

\* a valkey command of the registration's StoreSession fails
RegisterStoreFails(r) ==
  /\ req[r].kind = "register"
  /\ CommandFails(r)

\* RegisterUser, line 44 and the deferred Rollback of line 27
RegisterFail(r) ==
  /\ req[r].kind = "register" /\ req[r].pc = "fail"
  /\ probe' = [probe EXCEPT !.tx = "rolledback", !.result = "internal",
                            !.storeFailed = TRUE]
  /\ Proceed(r, Done(req[r], 500))
  /\ UNCHANGED <<now, kv, idx, nextTok, stored, users, activations>>
  /\ UNCHANGED <<cfg, limiters, buckets, nextBucket, rl, served, inst, swept>>

\* RegisterUser, lines 47-49: Commit
RegisterCommit(r, fails) ==
  /\ req[r].kind = "register" /\ req[r].pc = "commit"
  /\ IF fails
     THEN /\ probe' = [probe EXCEPT !.tx = "rolledback", !.result = "internal"]
          /\ Proceed(r, Done(req[r], 500))
     ELSE /\ probe' = [probe EXCEPT !.tx = "committed"]
          /\ Proceed(r, [req[r] EXCEPT !.pc = "email"])
  /\ UNCHANGED <<now, kv, idx, nextTok, stored, users, activations>>
  /\ UNCHANGED <<cfg, limiters, buckets, nextBucket, rl, served, inst, swept>>

\* RegisterUser, lines 51-55: SendActivationEmail with the token's plaintext
RegisterEmail(r, fails) ==
  /\ req[r].kind = "register" /\ req[r].pc = "email"
  /\ probe' = IF fails THEN [probe EXCEPT !.result = "email_error"]
              ELSE [probe EXCEPT !.result = "ok", !.mail = req[r].acc]
  /\ Proceed(r, Done(req[r], IF fails THEN 500 ELSE 202))
  /\ UNCHANGED <<now, kv, idx, nextTok, stored, users, activations>>
  /\ UNCHANGED <<cfg, limiters, buckets, nextBucket, rl, served, inst, swept>>

\* one registration, then activations with the token of the email
NextRegister ==
  \/ \E r \in Reqs, outcome \in {"ok", "begin_fails", "create_fails"} : RegisterStart(r, outcome)
  \/ \E r \in Reqs : RegisterStoreFails(r)
  \/ \E r \in Reqs : RegisterFail(r)
  \/ \E r \in Reqs, fails \in BOOLEAN : RegisterCommit(r, fails)
  \/ \E r \in Reqs, fails \in BOOLEAN : RegisterEmail(r, fails)
  \/ \E r \in Reqs : /\ probe.kind = "RegisterUser" /\ probe.mail # NoMail
                     /\ ActivateStart(r, probe.mail)
  \/ \E r \in Reqs : ActivateUpdate(r)
  \/ \E r \in Reqs : ActivateCommit(r)
  \/ \E r \in Reqs : StoreSessionSet(r)
  \/ \E r \in Reqs : StoreSessionSadd(r)
  \/ \E r \in Reqs : GetSessionGet(r)
  \/ \E r \in Reqs : DeleteAllSmembers(r)
  \/ \E r \in Reqs : DeleteAllDel(r)
  \/ \E r \in Reqs : DeleteAllDelIndex(r)
  \/ \E t \in {AccessTTL, DefaultTTL} : Tick(t)

SpecRegister == Init /\ [][NextRegister]_vars

\* the activation session of the registration is in the store and in the
\* user's index, unless its 24 hours have run out or an activation consumed
\* it
ActivationStored ==
  \/ /\ <<probe.token, ScopeActivation>> \in DOMAIN stored
     /\ stored[<<probe.token, ScopeActivation>>].session = RegisteredSession(probe.user)
     /\ stored[<<probe.token, ScopeActivation>>].by = "register"
     /\ GetSession(probe.token, ScopeActivation).err = "ok"
     /\ GetSession(probe.token, ScopeActivation).session = RegisteredSession(probe.user)
  \/ now >= DefaultTTL
  \/ \E r \in Reqs : req[r].kind = "activate" /\ req[r].cookie = probe.token
  \/ Activations(probe.token) > 0

\* C26: RegisterUser creates the user, stores the activation session,
\* commits and sends the email, in that order.  When StoreSession fails the
\* transaction is rolled back, no email is sent and an internal error is
\* returned; an email is sent only after the commit, with the token the
\* activation session was stored under
RegisterOrder ==
  /\ [](probe.kind = "RegisterUser" =>
          /\ probe.storeFailed
               => probe.tx = "rolledback" /\ probe.mail = NoMail /\ probe.result = "internal"
          /\ probe.tx = "committed" => ActivationStored
          /\ probe.mail # NoMail
               => probe.tx = "committed" /\ probe.mail = probe.token /\ probe.result = "ok"
          /\ probe.result = "ok" => probe.mail # NoMail
          /\ probe.tx = "open" => probe.result = "running")
  /\ [][\A r \in Reqs :
          LET q == req[r]
              q2 == req'[r]
          IN /\ (q.kind = "idle" /\ q2.kind = "register")
                  => q2.pc = "store" /\ probe'.tx = "open" /\ q2.acc = probe'.token
                     /\ CallOf(q2) = <<"StoreSession", q2.acc, ScopeActivation, q2.user>>
             /\ (q.kind = "register" /\ q2.kind = "register" /\ q2.pc # q.pc)
                  => \/ q.pc = "store" /\ q2.pc = "commit" /\ idx' # idx /\ probe' = probe
                     \/ q.pc = "store" /\ q2.pc = "fail" /\ idx' = idx /\ probe' = probe
                     \/ q.pc = "commit" /\ q2.pc = "email" /\ probe'.tx = "committed"
             /\ (q.kind = "register" /\ q2.kind = "idle")
                  => \/ q.pc = "fail" /\ probe'.storeFailed
                     \/ q.pc = "commit" /\ probe'.tx = "rolledback" /\ probe'.result = "internal"
                     \/ q.pc = "email" /\ probe'.result \in {"ok", "email_error"}]_vars

\* a registration sent its email and the token of the email activated the
\* user
RegisterOrderWitness ==
  /\ probe.kind = "RegisterUser" /\ probe.mail # NoMail
  /\ Activations(probe.mail) = 1

\* a registration whose StoreSession failed has returned
RegisterStoreFailedWitness ==
  /\ probe.kind = "RegisterUser" /\ probe.storeFailed
  /\ \A r \in Reqs : req[r].kind = "idle"

(***************************************************************************)
(* The adapter called with a TokenScope that has no name.                  *)
(***************************************************************************)
UnmappedScope == 999     \* TokenScope(999), a value String has no case for
AllScopes == Scopes \cup {UnmappedScope}

\* a caller invokes one adapter operation with any TokenScope value and
\* takes the result as it is
ScopeCall(r, op, scope, t) ==
  /\ req[r].kind = "idle"
  /\ LET q == [Idle EXCEPT !.kind = "ScopeCall", !.pc = op, !.user = 1, !.cookie = t]
     IN CASE op = "StoreSession" ->
               /\ nextTok <= MaxDirect /\ t = nextTok
               /\ nextTok' = nextTok + 1
               /\ Enter(r, CallStore(q, t, scope, UserSession(1)))
          [] op = "GetSession" ->
               /\ t < nextTok
               /\ Enter(r, CallGet(q, t, scope))
               /\ UNCHANGED nextTok
          [] OTHER ->
               /\ t = 0
               /\ Enter(r, CallDeleteAll(q, 1, scope))
               /\ UNCHANGED nextTok
  /\ UNCHANGED <<now, kv, idx, stored, lastResp>>
  /\ UNCHANGED <<rlvars, users, activations>>

\* calls with the authentication scope and with the unmapped one
NextScope ==
  \/ \E op \in {"StoreSession", "GetSession"},
        scope \in {ScopeAuthentication, UnmappedScope}, t \in 1 .. MaxDirect :
          ScopeCall("r1", op, scope, t)
  \/ \E scope \in {ScopeAuthentication, UnmappedScope} : ScopeCall("r2", "DeleteAll", scope, 0)
  \/ \E r \in Reqs : StoreSessionSet(r)
  \/ \E r \in Reqs : StoreSessionSadd(r)
  \/ \E r \in Reqs : GetSessionGet(r)
  \/ \E r \in Reqs : DeleteAllSmembers(r)
  \/ \E r \in Reqs : DeleteAllDel(r)
  \/ \E r \in Reqs : DeleteAllDelIndex(r)

SpecScope == Init /\ [][NextScope]_vars

\* C27: TokenScope.String names activation, authentication and refresh and
\* returns an error for every other value; StoreSession, GetSession and
\* DeleteAllSessionsForUser called with such a value return an error without
\* issuing a command on a key built from the empty scope name
UnmappedScopeFailsLoudly ==
  /\ [](/\ ScopeString(ScopeActivation) = [str |-> "activation", err |-> FALSE]
        /\ ScopeString(ScopeAuthentication) = [str |-> "authentication", err |-> FALSE]
        /\ ScopeString(ScopeRefresh) = [str |-> "refresh", err |-> FALSE]
        /\ \A scope \in AllScopes \ Scopes : ScopeString(scope).err
        /\ \A k \in DOMAIN kv : k[1] # ""
        /\ \A ik \in DOMAIN idx : ik[3] # "")
  /\ [][\A r \in Reqs :
          (/\ req[r].kind = "ScopeCall"
           /\ ScopeString(req[r].ascope).err
           /\ req'[r].apc # req[r].apc)
            => /\ req[r].apc \in {"StoreSession", "GetSession", "DeleteAll"}
               /\ req'[r].kind = "idle"
               /\ lastResp'.kind = "ScopeCall" /\ lastResp'.status = 500
               /\ kv' = kv /\ idx' = idx]_vars

\* StoreSession and GetSession with an unmapped scope return an internal
\* error and leave the store alone
UnmappedScopeStoreGet ==
  [][\A r \in Reqs :
       (/\ req[r].kind = "ScopeCall"
        /\ req[r].pc \in {"StoreSession", "GetSession"}
        /\ ScopeString(req[r].ascope).err
        /\ req'[r].apc # req[r].apc)
         => /\ req'[r].kind = "idle"
            /\ lastResp'.kind = "ScopeCall" /\ lastResp'.status = 500
            /\ kv' = kv /\ idx' = idx]_vars

(***************************************************************************)
(* The hourly sweep over two intervals.                                    *)
(***************************************************************************)
\* the instants the sweep is observed at: within the first hour, the first
\* tick, after it, and the second tick
SweepInstants == {1, Interval, Interval + 1, 2 * Interval}

\* the clock moves on once the sweep of a tick that is due has run
SweepTick(t) ==
  /\ cfg.enabled => swept = now \div Interval
  /\ RLTick(t)

NextSweep ==
  \/ \E q \in RLReqs : \E r \in Requests : RLStart(q, r)
  \/ \E q \in RLReqs : RLGetLimiter(q)
  \/ \E q \in RLReqs : RLAllow(q)
  \/ cleanupOldEntries
  \/ \E t \in SweepInstants : SweepTick(t)

\* the ticker goroutine runs each sweep and time passes
SpecSweep ==
  /\ Init /\ [][NextSweep]_vars
  /\ WF_vars(cleanupOldEntries)
  /\ WF_vars(\E t \in SweepInstants : SweepTick(t))

\* the entries a sweep at the current time keeps
Recent == {k \in DOMAIN limiters : ~(limiters[k].lastSeen < now - Interval)}

\* C28: a sweep removes exactly the entries last seen more than one interval
\* before it and leaves the others and their buckets as they are; getLimiter
\* sets the entry's last-seen to the current time; an entry is never older
\* than two intervals, right after a sweep none is older than one, and an IP
\* that was last seen in the first hour and sends nothing more is removed
IdleEviction ==
  /\ [][/\ swept' # swept
           => /\ DOMAIN limiters' = Recent
              /\ \A k \in Recent :
                   /\ limiters'[k] = limiters[k]
                   /\ buckets'[limiters[k].limiter] = buckets[limiters[k].limiter]
                   /\ limiters'[k].lastSeen + Interval >= now
        /\ \A q \in RLReqs :
             (rl[q].pc = "getLimiter" /\ rl'[q].pc = "Allow")
               => /\ limiterKey(rl[q].ip) \in DOMAIN limiters'
                  /\ limiters'[limiterKey(rl[q].ip)].lastSeen = now
                  /\ \A k \in DOMAIN limiters \ {limiterKey(rl[q].ip)} :
                       k \in DOMAIN limiters' /\ limiters'[k] = limiters[k]
        /\ (swept' = swept /\ \A q \in RLReqs : rl[q].pc = "getLimiter" => rl'[q] = rl[q])
             => limiters' = limiters]_vars
  /\ [](\A k \in DOMAIN limiters :
          /\ limiters[k].lastSeen + 2 * Interval >= now
          /\ swept = now \div Interval => limiters[k].lastSeen + 2 * Interval > now)
  /\ \A ip \in IPs :
       (limiterKey(ip) \in DOMAIN limiters /\ limiters[limiterKey(ip)].lastSeen <= 1)
         ~> (\/ limiterKey(ip) \notin DOMAIN limiters
             \/ limiters[limiterKey(ip)].lastSeen > 1)

\* the second sweep has removed an IP seen in the first hour that the first
\* sweep had kept, and kept an IP seen after the first tick
IdleEvictionWitness ==
  /\ now = 2 * Interval /\ swept = 2
  /\ \E a \in IPs : \E b \in IPs \ {a} :
       /\ limiterKey(a) \notin DOMAIN limiters
       /\ \E id \in DOMAIN buckets : buckets[id].owner = a
       /\ limiterKey(b) \in DOMAIN limiters
       /\ limiters[limiterKey(b)].lastSeen = Interval + 1

(***************************************************************************)
(* Rejected logins and refreshes.                                          *)
(***************************************************************************)
\* what every token resolves to, in every scope
Resolves == [t \in 1 .. MaxTokens, scope \in Scopes |-> GetSession(t, scope)]

\* C29: a login rejected for an unknown email or a wrong password, and a
\* refresh rejected for a missing, empty or non-resolving cookie, delete and
\* store nothing: the keys, the indexes and what every token resolves to are
\* the same after the request as before it
RejectedLeavesStore ==
  [][/\ (lastResp' # lastResp /\ lastResp'.kind = "login" /\ lastResp'.status \in {401, 404})
          => kv' = kv /\ idx' = idx /\ Resolves' = Resolves /\ req' = req
     /\ (lastResp' # lastResp /\ lastResp'.kind = "refresh" /\ lastResp'.status = 401)
          => kv' = kv /\ idx' = idx /\ Resolves' = Resolves
     /\ \A r \in Reqs :
          /\ (req[r].kind = "idle" /\ req'[r].kind = "refresh")
               => /\ req'[r].cookie \notin {NoCookie, EmptyCookie}
                  /\ kv' = kv /\ idx' = idx
          /\ (/\ req[r].kind = "refresh" /\ req[r].pc = "get"
              /\ req'[r].apc # req[r].apc
              /\ GetSession(req[r].cookie, ScopeRefresh).err # "ok")
               => /\ req'[r].kind = "idle"
                  /\ lastResp'.kind = "refresh" /\ lastResp'.status = 401
                  /\ kv' = kv /\ idx' = idx /\ Resolves' = Resolves]_vars

\* a refresh with a cookie that resolves to nothing was answered 401 while
\* the sessions of a login still resolve
RejectedLeavesStoreWitness ==
  /\ lastResp.kind = "refresh" /\ lastResp.status = 401 /\ lastResp.sent = BogusToken
  /\ \E t \in 1 .. MaxTokens : GetSession(t, ScopeRefresh).err = "ok"
  /\ \E t \in 1 .. MaxTokens : GetSession(t, ScopeAuthentication).err = "ok"
  /\ \A r \in Reqs : req[r].kind = "idle"

(***************************************************************************)
(* StoreSession interleaved with DeleteAllSessionsForUser.                 *)
(***************************************************************************)
\* C30: once a StoreSession and a DeleteAllSessionsForUser that ran
\* interleaved have both completed, every session that still resolves is
\* listed in the index of its user and scope, so that the next bulk delete
\* removes it
NoOrphanSessions ==
  (\A r \in Reqs : req[r].kind = "idle") =>
    \A k \in DOMAIN stored :
      GetSession(k[1], k[2]).err = "ok" =>
        k[1] \in CmdSmembers(buildUserIndexKey(GetSession(k[1], k[2]).session.UserID, k[2]))
====
